---- MODULE Spec2Model ----
(***************************************************************************)
(* Verification model of the AgriVision vegetation-index pipeline.         *)
(*                                                                         *)
(* Spec          run_grid_report (agrivision/pipeline/grid.py)             *)
(* SpecNdvi      run_ndvi (agrivision/pipeline/ndvi.py)                    *)
(* SpecEdges     one call of np.linspace as make_grid makes it             *)
(* SpecRowLetter one call of row_letter                                    *)
(* SpecNormDiff  one call of _normalized_diff                              *)
(*                                                                         *)
(* The grid report is modelled as a state                                  *)
(* machine: run_grid_report loads the index raster, calls make_grid with   *)
(* the absolute classifier, checks the classes for degeneracy, optionally  *)
(* derives percentile thresholds and calls make_grid again, then exports.  *)
(* make_grid's double loop is one step per cell.                           *)
(*                                                                         *)
(* Numbers.  Pixel values and thresholds are floats in the program.  Here  *)
(* every float is an exact rational held as an integer count of 1/Unit,    *)
(* with Unit a multiple of 100 and of every possible pixel count of a      *)
(* cell, so that cell means and the 33rd/66th percentile interpolation     *)
(* are exact integers.  An optional float (None, NaN) is the empty tuple,  *)
(* a present one is a one-element tuple.  In the index stage a sample is   *)
(* a pair <<n, d>>, which also holds the infinities and nan, over a        *)
(* denominator in which eps / 2 is one unit.                               *)
(***************************************************************************)
EXTENDS Integers, Sequences, FiniteSets, TLC

\* ------------------------------------------------------------------ bounds
MaxPixels == 3     \* rasters of H x W pixels with H * W <= MaxPixels
MaxCells == 4      \* grids of R x C cells with R * C <= MaxCells

\* Finite pixel values and configured thresholds, in index units: the pixel
\* values 0 and 1; POOR_MAX at one of them and MEDIUM_MAX at, between or
\* above them, so that valid, equal and reversed threshold pairs occur.
PixelValues == { 0, 1 }
PoorMaxValues == { 0, 1 }
MediumMaxValues == { 0, 1, 2 }

\* ----------------------------------------------------------- number model
RECURSIVE Gcd(_, _)
Gcd(a, b) == IF b = 0 THEN a ELSE Gcd(b, a % b)

RECURSIVE LcmUpTo(_)
LcmUpTo(n) == IF n <= 1 THEN 1 ELSE (LcmUpTo(n - 1) * n) \div Gcd(LcmUpTo(n - 1), n)

\* One index unit (the float 1.0) is Unit model units.
Unit == 100 * LcmUpTo(MaxPixels)

None == << >>
NaN == << >>
Some(v) == << v >>
isfinite(x) == x # << >>
Val(x) == x[1]

Min(a, b) == IF a <= b THEN a ELSE b

\* ------------------------------------------------------------------ state
VARIABLES
    tif_exists,      \* NDVI_TIF.exists()
    tif,             \* the raster stored in NDVI_TIF: [h, w, px]
    GRID_ROWS, GRID_COLS, POOR_MAX, MEDIUM_MAX,   \* module configuration
    pc,              \* position in run_grid_report / make_grid
    ndvi,            \* the loaded index array: [h, w, px]
    classifier,      \* the classifier passed to the running make_grid call
    mg_cells,        \* make_grid: the local list cells
    mg_row_edges,    \* make_grid: row_edges
    mg_col_edges,    \* make_grid: col_edges
    cells, row_edges, col_edges,   \* run_grid_report locals
    classes,         \* run_grid_report: the set classes
    values,          \* run_grid_report: the array values
    q33, q66,        \* run_grid_report: the dynamic thresholds
    passes,          \* number of make_grid calls made so far
    pass1_cells,     \* history: the list returned by the first make_grid call
    out_overlay,     \* GRID_PNG: what save_grid_overlay drew
    out_table,       \* GRID_TABLE_CSV rows
    out_categories,  \* GRID_CATEGORIES_CSV buckets
    \* --- the index stage, agrivision/pipeline/ndvi.py
    ortho_mapir,     \* the file ORTHO_MAPIR: None, or Some(dataset)
    ortho_rgb,       \* the file ORTHO_RGB: None, or Some(dataset)
    MAPIR_PROFILE, RGB_PROFILE,   \* module configuration
    npc,             \* position in run_ndvi
    src_path, label, profile,     \* run_ndvi: what choose_source returned
    src,             \* run_ndvi: the opened dataset
    index, idx_name, \* run_ndvi: idx and idx_name, what compute_index returned
    bands_read,      \* the band indices handed to src.read so far
    error,           \* the exception that ended run_ndvi: None, or Some(e)
    out_tif,         \* the file OUT_TIF: None, or Some([profile, data])
    out_png,         \* the file OUT_PNG: None, or Some([title])
    \* --- one call of a function of the program
    fn,              \* the function called
    args,            \* its arguments
    ret,             \* None, or Some(value returned)
    raised,          \* None, or Some(exception raised)
    \* --- the controller, agrivision/pipeline/controller.py
    run_resize_step, skip_odm, skip_odm_rgb, skip_odm_mapir, skip_ndvi,
                     \* the parameters of run_full_pipeline
    ortho_rgb_exists,       \* ORTHO_RGB.exists()
    ortho_mapir_exists,     \* ORTHO_MAPIR.exists()
    ndvi_tif_exists,        \* NDVI_TIF.exists()
    mapir_images_available, \* _mapir_images_available()
    cpc,             \* position in run_full_pipeline
    running,         \* the stage function being executed, "" when none
    started,         \* history: the stage functions called, in order
    completed,       \* history: the stage functions that returned, in order
    ctl_error,       \* the exception that ended run_full_pipeline, or None
    \* --- the cleanup tool, cleanup.py
    fs,              \* the paths that exist under PROJECT_ROOT
    fs_before,       \* history: fs when main was called
    dry, interactive,       \* the command line flags
    kpc,             \* position in main
    obsolete_items   \* main: the items still to hand to safe_delete

grid_vars == << tif_exists, tif, GRID_ROWS, GRID_COLS, POOR_MAX, MEDIUM_MAX, pc,
                ndvi, classifier, mg_cells, mg_row_edges, mg_col_edges, cells,
                row_edges, col_edges, classes, values, q33, q66, passes,
                pass1_cells, out_overlay, out_table, out_categories >>

ndvi_vars == << ortho_mapir, ortho_rgb, MAPIR_PROFILE, RGB_PROFILE, npc,
                src_path, label, profile, src, index, idx_name, bands_read,
                error, out_tif, out_png >>

call_vars == << fn, args, ret, raised >>

ctl_vars == << run_resize_step, skip_odm, skip_odm_rgb, skip_odm_mapir,
               skip_ndvi, ortho_rgb_exists, ortho_mapir_exists,
               ndvi_tif_exists, mapir_images_available, cpc, running, started,
               completed, ctl_error >>

clean_vars == << fs, fs_before, dry, interactive, kpc, obsolete_items >>

vars == << grid_vars, ndvi_vars, call_vars, ctl_vars, clean_vars >>

\* ----------------------------------------------------------------- raster
\* The samples a stored raster can hold.  NaN stands for every non-finite
\* sample (nan and the infinities): line 248 turns them all into nan and
\* make_grid only asks whether a pixel is finite.
PixelSet == {NaN} \cup {Some(v * Unit) : v \in PixelValues}

Pixels(h, w) == (0..(h - 1)) \X (0..(w - 1))

Rasters == UNION {
    { [h |-> h, w |-> w, px |-> f] : f \in [Pixels(h, w) -> PixelSet] }
    : <<h, w>> \in { s \in (1..MaxPixels) \X (1..MaxPixels) : s[1] * s[2] <= MaxPixels } }

NoRaster == [h |-> 0, w |-> 0, px |-> << >>]

\* ----------------------------------------------------------- grid helpers
letters == << "A", "B", "C", "D", "E", "F", "G", "H", "I", "J", "K", "L", "M",
              "N", "O", "P", "Q", "R", "S", "T", "U", "V", "W", "X", "Y", "Z" >>

\* What a call gives when indexing letters past its end raises IndexError;
\* no label is this sequence, a label being a sequence of single letters.
IndexError == << "IndexError" >>

\* row_letter(idx) for idx >= 0, lines 48-56: a string is the sequence of its
\* characters.  letters[i] raises IndexError for i >= len(letters).
row_letter(idx) ==
    IF idx < Len(letters)
    THEN << letters[idx + 1] >>
    ELSE IF idx \div Len(letters) - 1 >= Len(letters)
    THEN IndexError
    ELSE << letters[(idx \div Len(letters) - 1) + 1], letters[(idx % Len(letters)) + 1] >>

digits == << "0", "1", "2", "3", "4", "5", "6", "7", "8", "9" >>

\* str(n) of a non-negative integer, as the f-string formats col_lbl.
RECURSIVE DecimalStr(_)
DecimalStr(n) ==
    IF n < 10 THEN << digits[n + 1] >>
    ELSE Append(DecimalStr(n \div 10), digits[(n % 10) + 1])

\* Mutant: the boundary value falls in the lower class.
classify_ndvi_absolute_Inclusive(value) ==
    IF ~isfinite(value) THEN "no_data"
    ELSE IF Val(value) <= POOR_MAX THEN "poor"
    ELSE IF Val(value) <= MEDIUM_MAX THEN "medium"
    ELSE "good"

\* Mutant: medium is the band between the two thresholds, whatever their order.
classify_ndvi_absolute_Band(value) ==
    LET lo == Min(POOR_MAX, MEDIUM_MAX)
        hi == IF POOR_MAX >= MEDIUM_MAX THEN POOR_MAX ELSE MEDIUM_MAX
    IN  IF ~isfinite(value) THEN "no_data"
        ELSE IF Val(value) < lo THEN "poor"
        ELSE IF Val(value) < hi THEN "medium"
        ELSE "good"

classify_ndvi_absolute(value) ==
    IF ~isfinite(value) THEN "no_data"
    ELSE IF Val(value) < POOR_MAX THEN "poor"
    ELSE IF Val(value) < MEDIUM_MAX THEN "medium"
    ELSE "good"

\* Mutant: the boundary value falls in the lower class.
classify_ndvi_dynamic_Inclusive(value, t1, t2) ==
    IF ~isfinite(value) THEN "no_data"
    ELSE IF Val(value) <= t1 THEN "poor"
    ELSE IF Val(value) <= t2 THEN "medium"
    ELSE "good"

\* Mutant: a missing mean is compared as 0.0.
classify_ndvi_dynamic_NoneAsZero(value, t1, t2) ==
    LET v == IF isfinite(value) THEN Val(value) ELSE 0
    IN  IF v < t1 THEN "poor"
        ELSE IF v < t2 THEN "medium"
        ELSE "good"

classify_ndvi_dynamic(value, t1, t2) ==
    IF ~isfinite(value) THEN "no_data"
    ELSE IF Val(value) < t1 THEN "poor"
    ELSE IF Val(value) < t2 THEN "medium"
    ELSE "good"

\* The classifier argument of make_grid: the function itself on the first
\* call, the lambda closing over q33 and q66 on the second.
Classify(value) ==
    IF classifier = "absolute"
    THEN classify_ndvi_absolute(value)
    ELSE classify_ndvi_dynamic(value, Val(q33), Val(q66))

\* Mutant: linspace without its endpoint.
LinspaceInt_NoEndpoint(stop, num) ==
    [ i \in 1..num |-> ((i - 1) * stop) \div num ]

\* Mutant: the samples are whole multiples of the floored step.
LinspaceInt_WholeStep(stop, num) ==
    [ i \in 1..num |->
        IF i = num THEN stop ELSE (i - 1) * (stop \div (num - 1)) ]

\* np.linspace(0, stop, num, dtype=int): the num samples i * stop / (num - 1)
\* floored, the last one set to stop.  In binary64 the product i * (stop / div)
\* is within an ulp of the exact quotient, so its floor is the exact floor
\* except where the exact quotient is a whole number and the step is inexact;
\* that first happens for 14 segments and is outside the bounds used here.
LinspaceInt(stop, num) ==
    [ i \in 1..num |->
        IF i = num THEN stop ELSE ((i - 1) * stop) \div (num - 1) ]

\* The finite pixels of ndvi[r0:r1, c0:c1].
PatchFinite(a, r0, r1, c0, c1) ==
    { p \in Pixels(a.h, a.w) :
        /\ r0 <= p[1] /\ p[1] < r1
        /\ c0 <= p[2] /\ p[2] < c1
        /\ isfinite(a.px[p]) }

RECURSIVE SumPx(_, _)
SumPx(a, S) ==
    IF S = {} THEN 0
    ELSE LET p == CHOOSE x \in S : TRUE
         IN  Val(a.px[p]) + SumPx(a, S \ {p})

\* Mutant: the mean over all pixels of the patch, non-finite ones as 0.
CellMean_CountsAll(a, r0, r1, c0, c1) ==
    LET fin == PatchFinite(a, r0, r1, c0, c1)
        all == { p \in Pixels(a.h, a.w) :
                   r0 <= p[1] /\ p[1] < r1 /\ c0 <= p[2] /\ p[2] < c1 }
    IN  IF fin = {} THEN None
        ELSE Some(SumPx(a, fin) \div Cardinality(all))

\* mean_val of one cell (lines 102-108).
CellMean(a, r0, r1, c0, c1) ==
    LET fin == PatchFinite(a, r0, r1, c0, c1)
    IN  IF fin = {} THEN None
        ELSE Some(SumPx(a, fin) \div Cardinality(fin))

\* The record appended for (r, c) by the body of make_grid's loop.
MakeCell(a, r, c, redges, cedges) ==
    LET r0 == redges[r + 1]
        r1 == redges[r + 2]
        c0 == cedges[c + 1]
        c1 == cedges[c + 2]
        mean_val == CellMean(a, r0, r1, c0, c1)
        row_lbl == row_letter(r)
        col_lbl == c + 1
    IN  [ row_idx |-> r, col_idx |-> c,
          row_label |-> row_lbl, col_label |-> col_lbl,
          cell_id |-> row_lbl \o DecimalStr(col_lbl),
          mean_ndvi |-> mean_val,
          class |-> Classify(mean_val),
          r0 |-> r0, r1 |-> r1, c0 |-> c0, c1 |-> c1 ]

\* np.sort of a sequence of integers (insertion sort).
RECURSIVE InsertSorted(_, _)
InsertSorted(s, x) ==
    IF s = << >> THEN << x >>
    ELSE IF x <= Head(s) THEN << x >> \o s
    ELSE << Head(s) >> \o InsertSorted(Tail(s), x)

RECURSIVE NpSort(_)
NpSort(s) == IF s = << >> THEN << >> ELSE InsertSorted(NpSort(Tail(s)), Head(s))

\* Mutant: the lower order statistic, without interpolation.
Percentile_Lower(vs, q) ==
    LET s == NpSort(vs)
        lo == (q * (Len(s) - 1)) \div 100
    IN  s[lo + 1]

\* Mutant: the interpolation starts from the upper neighbour.
Percentile_Overshoot(vs, q) ==
    LET s == NpSort(vs)
        n == Len(s)
        pos == q * (n - 1)
        lo == pos \div 100
        hi == Min(lo + 1, n - 1)
        gamma == pos % 100
    IN  s[hi + 1] + ((s[hi + 1] - s[lo + 1]) * gamma) \div 100

\* np.nanpercentile(values, q), default linear method, values free of NaN:
\* virtual index q/100 * (n - 1), interpolated between the two neighbouring
\* order statistics.  Values are multiples of 100, so the result is exact.
Percentile(vs, q) ==
    LET s == NpSort(vs)
        n == Len(s)
        pos == q * (n - 1)
        lo == pos \div 100
        hi == Min(lo + 1, n - 1)
        gamma == pos % 100
    IN  s[lo + 1] + ((s[hi + 1] - s[lo + 1]) * gamma) \div 100

\* Mutant: a missing mean enters the list as 0.0.
RECURSIVE MeansOf_NoneAsZero(_)
MeansOf_NoneAsZero(cs) ==
    IF cs = << >> THEN << >>
    ELSE IF Head(cs).mean_ndvi # None
         THEN << Val(Head(cs).mean_ndvi) >> \o MeansOf_NoneAsZero(Tail(cs))
         ELSE << 0 >> \o MeansOf_NoneAsZero(Tail(cs))

\* [f(x) for x in s if keep(x)] for the two comprehensions of the run.
RECURSIVE MeansOf(_)
MeansOf(cs) ==
    IF cs = << >> THEN << >>
    ELSE IF Head(cs).mean_ndvi # None
         THEN << Val(Head(cs).mean_ndvi) >> \o MeansOf(Tail(cs))
         ELSE MeansOf(Tail(cs))

\* Mutant: the classes of all cells, NoData ones included.
ClassesOf_AllCells(cs) == { cs[i].class : i \in 1..Len(cs) }

ClassesOf(cs) ==
    { cs[i].class : i \in { j \in 1..Len(cs) : cs[j].mean_ndvi # None } }

\* ---------------------------------------------------------------- exports
COLOR_BY_CLASS(cls) ==
    CASE cls = "poor" -> "red"
      [] cls = "medium" -> "yellow"
      [] cls = "good" -> "lime"
      [] cls = "no_data" -> "gray"
      [] OTHER -> "white"

\* f"{mean_val:.4f}": the value rounded to four decimals (ties to even),
\* held as a count of 1/10000.
Fmt4(m) ==
    LET num == m * 10000
        q == num \div Unit
        r == num % Unit
    IN  IF 2 * r < Unit THEN q
        ELSE IF 2 * r > Unit THEN q + 1
        ELSE IF q % 2 = 0 THEN q ELSE q + 1

\* What save_grid_overlay draws: the edge lines and one coloured label per
\* cell at the cell centre (centres doubled to stay integral).
OverlayOf(cs, redges, cedges) ==
    [ vlines |-> cedges, hlines |-> redges,
      texts |-> [ i \in 1..Len(cs) |->
                    [ x2 |-> cs[i].c0 + cs[i].c1, y2 |-> cs[i].r0 + cs[i].r1,
                      label |-> cs[i].cell_id,
                      color |-> COLOR_BY_CLASS(cs[i].class) ] ] ]

\* The data rows save_cell_table_csv writes; a blank field is the empty tuple.
TableOf(cs) ==
    [ i \in 1..Len(cs) |->
        [ cell_id |-> cs[i].cell_id, row_label |-> cs[i].row_label,
          col_label |-> cs[i].col_label,
          mean_ndvi |-> IF cs[i].mean_ndvi = None THEN << >>
                        ELSE << Fmt4(Val(cs[i].mean_ndvi)) >>,
          class |-> cs[i].class ] ]

\* Mutant: each id is put at the front of its bucket.
RECURSIVE Bucket_Prepend(_, _)
Bucket_Prepend(cs, cls) ==
    IF cs = << >> THEN << >>
    ELSE IF Head(cs).class = cls
         THEN Bucket_Prepend(Tail(cs), cls) \o << Head(cs).cell_id >>
         ELSE Bucket_Prepend(Tail(cs), cls)

RECURSIVE Bucket(_, _)
Bucket(cs, cls) ==
    IF cs = << >> THEN << >>
    ELSE IF Head(cs).class = cls
         THEN << Head(cs).cell_id >> \o Bucket(Tail(cs), cls)
         ELSE Bucket(Tail(cs), cls)

Max4(a, b, c, d) ==
    LET m1 == IF a >= b THEN a ELSE b
        m2 == IF c >= d THEN c ELSE d
    IN  IF m1 >= m2 THEN m1 ELSE m2

\* The data rows save_categories_csv writes under the header
\* poor, medium, good, no_data; a blank field is the empty string.
CategoriesOf(cs) ==
    LET poor == Bucket(cs, "poor")
        medium == Bucket(cs, "medium")
        good == Bucket(cs, "good")
        no_data == Bucket(cs, "no_data")
        max_len == Max4(Len(poor), Len(medium), Len(good), Len(no_data))
        At(b, i) == IF i <= Len(b) THEN b[i] ELSE << >>
    IN  [ i \in 1..max_len |->
            [ poor |-> At(poor, i), medium |-> At(medium, i),
              good |-> At(good, i), no_data |-> At(no_data, i) ] ]

\* ------------------------------------------------ index stage: number model
MaxBands == 2      \* orthophotos of 1..MaxBands bands
MaxDN == 3         \* whole band samples 0..MaxDN

\* eps of _normalized_diff is 1 / EpsInv.
EpsInv == 1000000

\* A band sample or an index value is a pair <<n, d>>: the number n / d when
\* d > 0, the infinity of the sign of n when d = 0 and n # 0, and nan when
\* n = d = 0.  Band samples are exact rationals over the denominator Den, in
\* which eps / 2 is one unit; float32 rounding is left out.
Den == 2 * EpsInv
Sample(n) == << n, Den >>
DN(k) == Sample(k * Den)
f_nan == << 0, 0 >>
f_inf == << 1, 0 >>
f_ninf == << -1, 0 >>

Abs(n) == IF n < 0 THEN -n ELSE n
Sign(n) == IF n > 0 THEN 1 ELSE IF n < 0 THEN -1 ELSE 0

np_isnan(x) == x = f_nan
np_isinf(x) == x[2] = 0 /\ x[1] # 0
np_isfinite(x) == x[2] > 0

\* n / d in lowest terms, d > 0.
Reduce(n, d) == LET g == Gcd(Abs(n), d) IN << n \div g, d \div g >>

\* a + b of two samples over Den, with the IEEE rules for nan and infinities.
FAdd(a, b) ==
    IF np_isnan(a) \/ np_isnan(b) THEN f_nan
    ELSE IF np_isinf(a) /\ np_isinf(b) THEN (IF a = b THEN a ELSE f_nan)
    ELSE IF np_isinf(a) THEN a
    ELSE IF np_isinf(b) THEN b
    ELSE << a[1] + b[1], Den >>

FNeg(a) == << -a[1], a[2] >>

FSub(a, b) == FAdd(a, FNeg(b))

\* a / b of two samples over Den.  A zero divisor is +0, as the sum
\* denom + eps gives it: x / 0 is the infinity of the sign of x, 0 / 0 is nan.
FDiv(a, b) ==
    IF np_isnan(a) \/ np_isnan(b) THEN f_nan
    ELSE IF np_isinf(a)
         THEN (IF np_isinf(b) THEN f_nan ELSE << a[1] * (IF b[1] < 0 THEN -1 ELSE 1), 0 >>)
    ELSE IF np_isinf(b) THEN << 0, 1 >>
    ELSE IF b[1] = 0 THEN << Sign(a[1]), 0 >>
    ELSE Reduce(a[1] * Sign(b[1]), Abs(b[1]))

\* np.clip(x, -1.0, 1.0) of one value: nan stays nan.
Clip(x) ==
    IF np_isnan(x) THEN x
    ELSE IF x[2] = 0 THEN << x[1], 1 >>
    ELSE IF x[1] > x[2] THEN << 1, 1 >>
    ELSE IF x[1] < -x[2] THEN << -1, 1 >>
    ELSE x

\* Mutant: the quotient without eps in the denominator.
normalized_diff_NoEps(a, b) ==
    [ p \in DOMAIN a |-> Clip(FDiv(FSub(a[p], b[p]), FAdd(a[p], b[p]))) ]

\* Mutant: eps is 1e-3.
normalized_diff_BigEps(a, b) ==
    [ p \in DOMAIN a |->
        LET denom == FAdd(a[p], b[p])
            eps == Sample(2 * 1000)
        IN  Clip(FDiv(FSub(a[p], b[p]), FAdd(denom, eps))) ]

\* _normalized_diff(a, b), lines 155-162, elementwise on two arrays.
normalized_diff(a, b) ==
    [ p \in DOMAIN a |->
        LET denom == FAdd(a[p], b[p])
            eps == Sample(2)
        IN  Clip(FDiv(FSub(a[p], b[p]), FAdd(denom, eps))) ]

\* ---------------------------------------------------- index stage: strings
\* A string is the sequence of its characters.
lower_letters == << "a", "b", "c", "d", "e", "f", "g", "h", "i", "j", "k", "l", "m",
                    "n", "o", "p", "q", "r", "s", "t", "u", "v", "w", "x", "y", "z" >>

whitespace == { " ", "\t", "\n" }

\* str.lower()
StrLower(s) ==
    [ i \in 1..Len(s) |->
        IF \E k \in 1..Len(letters) : letters[k] = s[i]
        THEN lower_letters[CHOOSE k \in 1..Len(letters) : letters[k] = s[i]]
        ELSE s[i] ]

\* str.strip()
RECURSIVE StrLStrip(_)
StrLStrip(s) ==
    IF s # << >> /\ Head(s) \in whitespace THEN StrLStrip(Tail(s)) ELSE s

RECURSIVE StrRStrip(_)
StrRStrip(s) ==
    IF s # << >> /\ s[Len(s)] \in whitespace
    THEN StrRStrip(SubSeq(s, 1, Len(s) - 1)) ELSE s

StrStrip(s) == StrRStrip(StrLStrip(s))

S_nir_red == << "n", "i", "r", "_", "r", "e", "d" >>
S_nir_green == << "n", "i", "r", "_", "g", "r", "e", "e", "n" >>
S_pseudo == << "p", "s", "e", "u", "d", "o" >>

\* The index_mode settings of a profile: the key missing (None), or a text:
\* the three selectors, a selector in other case and with blanks around it,
\* the empty text, and a text that is no selector.
IndexModes ==
    { None, Some(S_nir_red), Some(S_nir_green), Some(S_pseudo),
      Some(<< " ", "N", "I", "R", "_", "R", "e", "d", "\n" >>),
      Some(<< >>),
      Some(<< "n", "d", "v", "i" >>) }

\* The band settings of a profile: a negative index, 0, every band, and
\* count + 1 for every count.
BandSettings == (-1)..(MaxBands + 1)

Profiles ==
    [ index_mode : IndexModes, nir_band : BandSettings,
      red_band : BandSettings, green_band : BandSettings ]

\* A profile of the pseudo mode, which the module documents for the RGB
\* fallback.
DefaultProfile ==
    [ index_mode |-> Some(S_pseudo), nir_band |-> 1, red_band |-> 2, green_band |-> 2 ]

\* -------------------------------------------------- index stage: datasets
ORTHO_MAPIR == "odm_mapir/project/odm_orthophoto/odm_orthophoto.tif"
ORTHO_RGB == "odm_rgb/project/odm_orthophoto/odm_orthophoto.tif"

\* One band of an orthophoto of one row and two columns.  In band k the
\* first pixel is the whole number k; the second is 0 in an 8-bit image and
\* nan in a float image; a blank float image is nan throughout.
BandOf(k, kind) ==
    [ p \in Pixels(1, 2) |->
        IF kind = "blank" THEN f_nan
        ELSE IF p = << 0, 0 >> THEN DN(k)
        ELSE IF kind = "uint8" THEN DN(0)
        ELSE f_nan ]

\* A dataset: its descriptor (src.profile) and its bands (src.read(i)).
Ortho(count, kind) ==
    [ profile |->
        [ driver |-> "GTiff",
          dtype |-> IF kind = "uint8" THEN "uint8" ELSE "float32",
          nodata |-> IF kind = "uint8" THEN Some(0) ELSE None,
          width |-> 2, height |-> 1, count |-> count,
          crs |-> "EPSG:32634", transform |-> "affine" ],
      bands |-> [ k \in 1..count |-> BandOf(k, kind) ] ]

\* The MAPIR orthophoto is any of the datasets, the RGB one an 8-bit image.
Orthos == { Ortho(count, kind) : count \in 1..MaxBands, kind \in { "uint8", "float32", "blank" } }

RgbOrthos == { Ortho(count, "uint8") : count \in 1..MaxBands }

\* Path.exists() of one of the two orthophoto files.
exists(file) == file # None

\* Mutant: the RGB orthophoto is preferred.
choose_source_RgbFirst ==
    IF exists(ortho_rgb)
    THEN [ raise |-> None, path |-> ORTHO_RGB, label |-> "RGB", profile |-> RGB_PROFILE ]
    ELSE IF exists(ortho_mapir)
    THEN [ raise |-> None, path |-> ORTHO_MAPIR, label |-> "MAPIR", profile |-> MAPIR_PROFILE ]
    ELSE [ raise |-> Some([ type |-> "RuntimeError", what |-> "no_orthophoto",
                            names |-> { ORTHO_MAPIR, ORTHO_RGB } ]),
           path |-> "", label |-> "", profile |-> None ]

\* choose_source(), lines 75-94.
choose_source ==
    IF exists(ortho_mapir)
    THEN [ raise |-> None, path |-> ORTHO_MAPIR, label |-> "MAPIR", profile |-> MAPIR_PROFILE ]
    ELSE IF exists(ortho_rgb)
    THEN [ raise |-> None, path |-> ORTHO_RGB, label |-> "RGB", profile |-> RGB_PROFILE ]
    ELSE [ raise |-> Some([ type |-> "RuntimeError", what |-> "no_orthophoto",
                            names |-> { ORTHO_MAPIR, ORTHO_RGB } ]),
           path |-> "", label |-> "", profile |-> None ]

\* Mutant: an index out of range is clamped to the nearest band.
read_band_Clamped(s, band_idx) ==
    LET i == IF band_idx < 1 THEN 1
             ELSE IF band_idx > s.profile.count THEN s.profile.count
             ELSE band_idx
    IN  [ raise |-> None, arr |-> Some(s.bands[i]) ]

\* _read_band(src, band_idx), lines 100-107, for an integer band_idx.  The
\* cast to float32 keeps the value of every 8-bit and float32 sample.
read_band(s, band_idx) ==
    IF band_idx < 1 \/ band_idx > s.profile.count
    THEN [ raise |-> Some([ type |-> "ValueError", what |-> "invalid_band_index",
                            index |-> band_idx, first |-> 1, last |-> s.profile.count ]),
           arr |-> None ]
    ELSE [ raise |-> None, arr |-> Some(s.bands[band_idx]) ]

\* The body shared by the three branches of compute_index: read band i, read
\* band j, return their normalized difference under the given name.
IndexOfBands(s, i, j, name) ==
    LET ra == read_band(s, i)
    IN  IF ra.raise # None
        THEN [ raise |-> ra.raise, reads |-> << >>, idx |-> None, name |-> "" ]
        ELSE LET rb == read_band(s, j)
             IN  IF rb.raise # None
                 THEN [ raise |-> rb.raise, reads |-> << i >>, idx |-> None, name |-> "" ]
                 ELSE [ raise |-> None, reads |-> << i, j >>,
                        idx |-> Some(normalized_diff(Val(ra.arr), Val(rb.arr))),
                        name |-> name ]

\* Line 117: (profile.get("index_mode") or "").strip().lower()
ModeOf(prof) ==
    StrLower(StrStrip(IF prof.index_mode = None THEN << >> ELSE Val(prof.index_mode)))

\* Mutant: the pseudo mode reads the green band.
compute_index_PseudoGreen(s, lbl, prof) ==
    LET mode == ModeOf(prof)
    IN  IF mode = S_nir_red
        THEN IndexOfBands(s, prof.nir_band, prof.red_band, "NDVI (NIR-RED)")
        ELSE IF mode = S_nir_green
        THEN IndexOfBands(s, prof.nir_band, prof.green_band,
                          "Vegetation Index (NIR-GREEN, GNDVI-like)")
        ELSE IF mode = S_pseudo
        THEN IndexOfBands(s, prof.nir_band, prof.green_band,
                          "Pseudo Vegetation Index (configured bands)")
        ELSE [ raise |-> Some([ type |-> "ValueError", what |-> "unsupported_index_mode",
                                mode |-> mode, label |-> lbl ]),
               reads |-> << >>, idx |-> None, name |-> "" ]

\* Mutant: a mode that is no selector falls through to the pseudo formula.
compute_index_FallThrough(s, lbl, prof) ==
    LET mode == ModeOf(prof)
    IN  IF mode = S_nir_red
        THEN IndexOfBands(s, prof.nir_band, prof.red_band, "NDVI (NIR-RED)")
        ELSE IF mode = S_nir_green
        THEN IndexOfBands(s, prof.nir_band, prof.green_band,
                          "Vegetation Index (NIR-GREEN, GNDVI-like)")
        ELSE IndexOfBands(s, prof.nir_band, prof.red_band,
                          "Pseudo Vegetation Index (configured bands)")

\* compute_index(src, label, profile), lines 110-152.
compute_index(s, lbl, prof) ==
    LET mode == ModeOf(prof)
    IN  IF mode = S_nir_red
        THEN IndexOfBands(s, prof.nir_band, prof.red_band, "NDVI (NIR-RED)")
        ELSE IF mode = S_nir_green
        THEN IndexOfBands(s, prof.nir_band, prof.green_band,
                          "Vegetation Index (NIR-GREEN, GNDVI-like)")
        ELSE IF mode = S_pseudo
        THEN IndexOfBands(s, prof.nir_band, prof.red_band,
                          "Pseudo Vegetation Index (configured bands)")
        ELSE [ raise |-> Some([ type |-> "ValueError", what |-> "unsupported_index_mode",
                                mode |-> mode, label |-> lbl ]),
               reads |-> << >>, idx |-> None, name |-> "" ]

\* Mutant: the descriptor of the source is updated in place.
save_geotiff_InPlace(s, arr) ==
    LET prof == [ s.profile EXCEPT !.dtype = "float32", !.count = 1, !.nodata = None ]
    IN  [ src |-> [ s EXCEPT !.profile = prof ],
          file |-> [ profile |-> prof, data |-> arr ] ]

\* save_geotiff(src, arr, out_path), lines 168-181: the dataset after the
\* call and the file written.  arr is float32 already.
save_geotiff(s, arr) ==
    LET prof == [ s.profile EXCEPT !.dtype = "float32", !.count = 1, !.nodata = None ]
    IN  [ src |-> s,
          file |-> [ profile |-> prof, data |-> arr ] ]

\* save_png(arr, out_path, title), lines 184-207: the exception raised or
\* the picture written.  The colour stretch is not modelled.
save_png(arr, title) ==
    IF \A p \in DOMAIN arr : ~np_isfinite(arr[p])
    THEN [ raise |-> Some([ type |-> "RuntimeError", what |-> "no_valid_values" ]),
           file |-> None ]
    ELSE [ raise |-> None, file |-> Some([ title |-> title ]) ]

\* ------------------------------------------------------- variables at rest
\* The index stage before run_ndvi is called, with no orthophoto on disk.
NdviIdle ==
    /\ ortho_mapir = None
    /\ ortho_rgb = None
    /\ MAPIR_PROFILE = DefaultProfile
    /\ RGB_PROFILE = DefaultProfile
    /\ npc = "start"
    /\ src_path = None
    /\ label = None
    /\ profile = None
    /\ src = None
    /\ index = None
    /\ idx_name = None
    /\ bands_read = << >>
    /\ error = None
    /\ out_tif = None
    /\ out_png = None

\* No function call under way.
CallIdle ==
    /\ fn = ""
    /\ args = << >>
    /\ ret = None
    /\ raised = None

\* The controller before run_full_pipeline is called, with nothing on disk.
CtlIdle ==
    /\ run_resize_step = FALSE
    /\ skip_odm = FALSE
    /\ skip_odm_rgb = FALSE
    /\ skip_odm_mapir = FALSE
    /\ skip_ndvi = FALSE
    /\ ortho_rgb_exists = FALSE
    /\ ortho_mapir_exists = FALSE
    /\ ndvi_tif_exists = FALSE
    /\ mapir_images_available = FALSE
    /\ cpc = "step1"
    /\ running = ""
    /\ started = << >>
    /\ completed = << >>
    /\ ctl_error = None

\* The cleanup tool before main is called, on an empty project root.
CleanIdle ==
    /\ fs = {}
    /\ fs_before = {}
    /\ dry = FALSE
    /\ interactive = FALSE
    /\ kpc = "start"
    /\ obsolete_items = {}

\* ------------------------------------------------------------------- Init
Init ==
    /\ tif_exists \in BOOLEAN
    /\ tif \in (IF tif_exists THEN Rasters ELSE {NoRaster})
    /\ GRID_ROWS \in 1..MaxCells
    /\ GRID_COLS \in 1..MaxCells
    /\ GRID_ROWS * GRID_COLS <= MaxCells
    /\ POOR_MAX \in { t * Unit : t \in PoorMaxValues }
    /\ MEDIUM_MAX \in { t * Unit : t \in MediumMaxValues }
    /\ pc = "start"
    /\ ndvi = NoRaster
    /\ classifier = "absolute"
    /\ mg_cells = << >>
    /\ mg_row_edges = << >>
    /\ mg_col_edges = << >>
    /\ cells = << >>
    /\ row_edges = << >>
    /\ col_edges = << >>
    /\ classes = {}
    /\ values = << >>
    /\ q33 = None
    /\ q66 = None
    /\ passes = 0
    /\ pass1_cells = << >>
    /\ out_overlay = << >>
    /\ out_table = << >>
    /\ out_categories = << >>
    /\ NdviIdle
    /\ CallIdle
    /\ CtlIdle
    /\ CleanIdle

\* ---------------------------------------------------------------- actions
\* run_grid_report, lines 242-243: the index raster is missing.
NdviMissing ==
    /\ pc = "start"
    /\ ~tif_exists
    /\ pc' = "error"
    /\ UNCHANGED << tif_exists, tif, GRID_ROWS, GRID_COLS, POOR_MAX, MEDIUM_MAX,
                    ndvi, classifier, mg_cells, mg_row_edges, mg_col_edges,
                    cells, row_edges, col_edges, classes, values, q33, q66,
                    passes, pass1_cells, out_overlay, out_table, out_categories >>
    /\ UNCHANGED << ndvi_vars, call_vars, ctl_vars, clean_vars >>

\* run_grid_report, lines 245-253: read band 1, turn every non-finite value
\* into NaN, and call make_grid with the absolute classifier.
LoadNdvi ==
    /\ pc = "start"
    /\ tif_exists
    /\ ndvi' = [ tif EXCEPT !.px =
                   [ p \in DOMAIN tif.px |->
                       IF isfinite(tif.px[p]) THEN tif.px[p] ELSE NaN ] ]
    /\ classifier' = "absolute"
    /\ pc' = "make_grid"
    /\ UNCHANGED << tif_exists, tif, GRID_ROWS, GRID_COLS, POOR_MAX, MEDIUM_MAX,
                    mg_cells, mg_row_edges, mg_col_edges,
                    cells, row_edges, col_edges, classes, values, q33, q66,
                    passes, pass1_cells, out_overlay, out_table, out_categories >>
    /\ UNCHANGED << ndvi_vars, call_vars, ctl_vars, clean_vars >>

\* Mutant: the list is not started afresh.
MakeGridEnter_KeepsList ==
    /\ pc = "make_grid"
    /\ mg_row_edges' = LinspaceInt(ndvi.h, GRID_ROWS + 1)
    /\ mg_col_edges' = LinspaceInt(ndvi.w, GRID_COLS + 1)
    /\ passes' = passes + 1
    /\ pc' = "loop"
    /\ UNCHANGED << tif_exists, tif, GRID_ROWS, GRID_COLS, POOR_MAX, MEDIUM_MAX,
                    ndvi, classifier, mg_cells,
                    cells, row_edges, col_edges, classes, values, q33, q66,
                    pass1_cells, out_overlay, out_table, out_categories >>
    /\ UNCHANGED << ndvi_vars, call_vars, ctl_vars, clean_vars >>

\* make_grid, lines 90-95: the edges and the empty list.
MakeGridEnter ==
    /\ pc = "make_grid"
    /\ mg_row_edges' = LinspaceInt(ndvi.h, GRID_ROWS + 1)
    /\ mg_col_edges' = LinspaceInt(ndvi.w, GRID_COLS + 1)
    /\ mg_cells' = << >>
    /\ passes' = passes + 1
    /\ pc' = "loop"
    /\ UNCHANGED << tif_exists, tif, GRID_ROWS, GRID_COLS, POOR_MAX, MEDIUM_MAX,
                    ndvi, classifier,
                    cells, row_edges, col_edges, classes, values, q33, q66,
                    pass1_cells, out_overlay, out_table, out_categories >>
    /\ UNCHANGED << ndvi_vars, call_vars, ctl_vars, clean_vars >>

\* make_grid, lines 97-130: one iteration of the double loop, row-major.
MakeGridCell ==
    /\ pc = "loop"
    /\ Len(mg_cells) < GRID_ROWS * GRID_COLS
    /\ LET r == Len(mg_cells) \div GRID_COLS
           c == Len(mg_cells) % GRID_COLS
       IN  mg_cells' = Append(mg_cells, MakeCell(ndvi, r, c, mg_row_edges, mg_col_edges))
    /\ UNCHANGED << tif_exists, tif, GRID_ROWS, GRID_COLS, POOR_MAX, MEDIUM_MAX,
                    pc, ndvi, classifier, mg_row_edges, mg_col_edges,
                    cells, row_edges, col_edges, classes, values, q33, q66,
                    passes, pass1_cells, out_overlay, out_table, out_categories >>
    /\ UNCHANGED << ndvi_vars, call_vars, ctl_vars, clean_vars >>

\* Mutant: the row loop stops at the last pixel row.
MakeGridReturn_ExistingRows ==
    /\ pc = "loop"
    /\ Len(mg_cells) = Min(GRID_ROWS, ndvi.h) * GRID_COLS
    /\ cells' = mg_cells
    /\ row_edges' = mg_row_edges
    /\ col_edges' = mg_col_edges
    /\ pass1_cells' = IF classifier = "absolute" THEN mg_cells ELSE pass1_cells
    /\ pc' = IF classifier = "absolute" THEN "check" ELSE "overlay"
    /\ UNCHANGED << tif_exists, tif, GRID_ROWS, GRID_COLS, POOR_MAX, MEDIUM_MAX,
                    ndvi, classifier, mg_cells, mg_row_edges, mg_col_edges,
                    classes, values, q33, q66,
                    passes, out_overlay, out_table, out_categories >>
    /\ UNCHANGED << ndvi_vars, call_vars, ctl_vars, clean_vars >>

\* make_grid, line 132, and the assignment of its result at line 253 or 271.
MakeGridReturn ==
    /\ pc = "loop"
    /\ Len(mg_cells) = GRID_ROWS * GRID_COLS
    /\ cells' = mg_cells
    /\ row_edges' = mg_row_edges
    /\ col_edges' = mg_col_edges
    /\ pass1_cells' = IF classifier = "absolute" THEN mg_cells ELSE pass1_cells
    /\ pc' = IF classifier = "absolute" THEN "check" ELSE "overlay"
    /\ UNCHANGED << tif_exists, tif, GRID_ROWS, GRID_COLS, POOR_MAX, MEDIUM_MAX,
                    ndvi, classifier, mg_cells, mg_row_edges, mg_col_edges,
                    classes, values, q33, q66,
                    passes, out_overlay, out_table, out_categories >>
    /\ UNCHANGED << ndvi_vars, call_vars, ctl_vars, clean_vars >>

\* Mutant: the test that the set is not empty is missing.
Degenerate_NoEmptyTest(cls) == Cardinality(cls) <= 1 /\ "no_data" \notin cls

\* The condition of line 259.
Degenerate(cls) == Cardinality(cls) <= 1 /\ cls # {} /\ "no_data" \notin cls

\* run_grid_report, lines 255-259: the class set and the degeneracy test.
DegeneracyCheck ==
    /\ pc = "check"
    /\ classes' = ClassesOf(cells)
    /\ pc' = IF Degenerate(classes') THEN "dynamic" ELSE "overlay"
    /\ UNCHANGED << tif_exists, tif, GRID_ROWS, GRID_COLS, POOR_MAX, MEDIUM_MAX,
                    ndvi, classifier, mg_cells, mg_row_edges, mg_col_edges,
                    cells, row_edges, col_edges, values, q33, q66,
                    passes, pass1_cells, out_overlay, out_table, out_categories >>
    /\ UNCHANGED << ndvi_vars, call_vars, ctl_vars, clean_vars >>

\* Mutant: the missing samples of the index array are filled with 0.0 in
\* place before the second pass.
DynamicThresholds_FillsNoData ==
    /\ pc = "dynamic"
    /\ values' = MeansOf(cells)
    /\ q33' = Some(Percentile(values', 33))
    /\ q66' = Some(Percentile(values', 66))
    /\ classifier' = "dynamic"
    /\ ndvi' = [ ndvi EXCEPT !.px =
                   [ p \in DOMAIN ndvi.px |->
                       IF isfinite(ndvi.px[p]) THEN ndvi.px[p] ELSE Some(0) ] ]
    /\ pc' = "make_grid"
    /\ UNCHANGED << tif_exists, tif, GRID_ROWS, GRID_COLS, POOR_MAX, MEDIUM_MAX,
                    mg_cells, mg_row_edges, mg_col_edges,
                    cells, row_edges, col_edges, classes,
                    passes, pass1_cells, out_overlay, out_table, out_categories >>
    /\ UNCHANGED << ndvi_vars, call_vars, ctl_vars, clean_vars >>

\* run_grid_report, lines 262-272: the means, their 33rd and 66th
\* percentiles, and the second make_grid call with the dynamic classifier.
DynamicThresholds ==
    /\ pc = "dynamic"
    /\ values' = MeansOf(cells)
    /\ q33' = Some(Percentile(values', 33))
    /\ q66' = Some(Percentile(values', 66))
    /\ classifier' = "dynamic"
    /\ pc' = "make_grid"
    /\ UNCHANGED << tif_exists, tif, GRID_ROWS, GRID_COLS, POOR_MAX, MEDIUM_MAX,
                    ndvi, mg_cells, mg_row_edges, mg_col_edges,
                    cells, row_edges, col_edges, classes,
                    passes, pass1_cells, out_overlay, out_table, out_categories >>
    /\ UNCHANGED << ndvi_vars, call_vars, ctl_vars, clean_vars >>

\* run_grid_report, line 275.
SaveGridOverlay ==
    /\ pc = "overlay"
    /\ out_overlay' = Some(OverlayOf(cells, row_edges, col_edges))
    /\ pc' = "table"
    /\ UNCHANGED << tif_exists, tif, GRID_ROWS, GRID_COLS, POOR_MAX, MEDIUM_MAX,
                    ndvi, classifier, mg_cells, mg_row_edges, mg_col_edges,
                    cells, row_edges, col_edges, classes, values, q33, q66,
                    passes, pass1_cells, out_table, out_categories >>
    /\ UNCHANGED << ndvi_vars, call_vars, ctl_vars, clean_vars >>

\* run_grid_report, line 276.
SaveCellTableCsv ==
    /\ pc = "table"
    /\ out_table' = Some(TableOf(cells))
    /\ pc' = "categories"
    /\ UNCHANGED << tif_exists, tif, GRID_ROWS, GRID_COLS, POOR_MAX, MEDIUM_MAX,
                    ndvi, classifier, mg_cells, mg_row_edges, mg_col_edges,
                    cells, row_edges, col_edges, classes, values, q33, q66,
                    passes, pass1_cells, out_overlay, out_categories >>
    /\ UNCHANGED << ndvi_vars, call_vars, ctl_vars, clean_vars >>

\* run_grid_report, line 277.
SaveCategoriesCsv ==
    /\ pc = "categories"
    /\ out_categories' = Some(CategoriesOf(cells))
    /\ pc' = "done"
    /\ UNCHANGED << tif_exists, tif, GRID_ROWS, GRID_COLS, POOR_MAX, MEDIUM_MAX,
                    ndvi, classifier, mg_cells, mg_row_edges, mg_col_edges,
                    cells, row_edges, col_edges, classes, values, q33, q66,
                    passes, pass1_cells, out_overlay, out_table >>
    /\ UNCHANGED << ndvi_vars, call_vars, ctl_vars, clean_vars >>

Next ==
    \/ NdviMissing
    \/ LoadNdvi
    \/ MakeGridEnter
    \/ MakeGridCell
    \/ MakeGridReturn
    \/ DegeneracyCheck
    \/ DynamicThresholds
    \/ SaveGridOverlay
    \/ SaveCellTableCsv
    \/ SaveCategoriesCsv

Spec == Init /\ [][Next]_vars

TypeOK ==
    /\ pc \in { "start", "error", "make_grid", "loop", "check", "dynamic",
                "overlay", "table", "categories", "done" }
    /\ passes \in 0..2
    /\ classifier \in { "absolute", "dynamic" }

\* The grid report before run_grid_report is called, with no index raster.
GridIdle ==
    /\ tif_exists = FALSE
    /\ tif = NoRaster
    /\ GRID_ROWS = 1
    /\ GRID_COLS = 1
    /\ POOR_MAX = 0
    /\ MEDIUM_MAX = Unit
    /\ pc = "start"
    /\ ndvi = NoRaster
    /\ classifier = "absolute"
    /\ mg_cells = << >>
    /\ mg_row_edges = << >>
    /\ mg_col_edges = << >>
    /\ cells = << >>
    /\ row_edges = << >>
    /\ col_edges = << >>
    /\ classes = {}
    /\ values = << >>
    /\ q33 = None
    /\ q66 = None
    /\ passes = 0
    /\ pass1_cells = << >>
    /\ out_overlay = << >>
    /\ out_table = << >>
    /\ out_categories = << >>

\* ------------------------------------------------------- the index stage
\* The state run_ndvi starts from: each orthophoto missing or present with
\* one of the datasets, the two profiles drawn from the settings with one of
\* them at the default, nothing written yet.
NdviInit ==
    /\ ortho_mapir \in {None} \cup { Some(d) : d \in Orthos }
    /\ ortho_rgb \in {None} \cup { Some(d) : d \in RgbOrthos }
    /\ \/ MAPIR_PROFILE \in Profiles /\ RGB_PROFILE = DefaultProfile
       \/ MAPIR_PROFILE = DefaultProfile /\ RGB_PROFILE \in Profiles
    /\ npc = "start"
    /\ src_path = None
    /\ label = None
    /\ profile = None
    /\ src = None
    /\ index = None
    /\ idx_name = None
    /\ bands_read = << >>
    /\ error = None
    /\ out_tif = None
    /\ out_png = None
    /\ GridIdle
    /\ CallIdle
    /\ CtlIdle
    /\ CleanIdle

\* run_ndvi, line 220: choose_source() returns or raises.
ChooseSource ==
    /\ npc = "start"
    /\ LET r == choose_source
       IN  IF r.raise # None
           THEN /\ error' = r.raise
                /\ npc' = "error"
                /\ UNCHANGED << src_path, label, profile >>
           ELSE /\ src_path' = r.path
                /\ label' = r.label
                /\ profile' = r.profile
                /\ npc' = "open"
                /\ UNCHANGED error
    /\ UNCHANGED << ortho_mapir, ortho_rgb, MAPIR_PROFILE, RGB_PROFILE,
                    src, index, idx_name, bands_read, out_tif, out_png >>
    /\ UNCHANGED << grid_vars, call_vars, ctl_vars, clean_vars >>

\* run_ndvi, line 223: rasterio.open(src_path).
OpenSource ==
    /\ npc = "open"
    /\ src' = Val(IF src_path = ORTHO_MAPIR THEN ortho_mapir ELSE ortho_rgb)
    /\ npc' = "compute"
    /\ UNCHANGED << ortho_mapir, ortho_rgb, MAPIR_PROFILE, RGB_PROFILE,
                    src_path, label, profile, index, idx_name, bands_read,
                    error, out_tif, out_png >>
    /\ UNCHANGED << grid_vars, call_vars, ctl_vars, clean_vars >>

\* run_ndvi, line 224: compute_index(src, label, profile) returns or raises.
ComputeIndex ==
    /\ npc = "compute"
    /\ LET r == compute_index(src, label, profile)
       IN  /\ bands_read' = r.reads
           /\ IF r.raise # None
              THEN /\ error' = r.raise
                   /\ npc' = "error"
                   /\ UNCHANGED << index, idx_name >>
              ELSE /\ index' = r.idx
                   /\ idx_name' = r.name
                   /\ npc' = "save_tif"
                   /\ UNCHANGED error
    /\ UNCHANGED << ortho_mapir, ortho_rgb, MAPIR_PROFILE, RGB_PROFILE,
                    src_path, label, profile, src, out_tif, out_png >>
    /\ UNCHANGED << grid_vars, call_vars, ctl_vars, clean_vars >>

\* run_ndvi, line 225: save_geotiff(src, idx, OUT_TIF).
SaveGeotiff ==
    /\ npc = "save_tif"
    /\ LET r == save_geotiff(src, Val(index))
       IN  /\ src' = r.src
           /\ out_tif' = Some(r.file)
    /\ npc' = "save_png"
    /\ UNCHANGED << ortho_mapir, ortho_rgb, MAPIR_PROFILE, RGB_PROFILE,
                    src_path, label, profile, index, idx_name, bands_read,
                    error, out_png >>
    /\ UNCHANGED << grid_vars, call_vars, ctl_vars, clean_vars >>

\* run_ndvi, line 226: save_png(idx, OUT_PNG, title=idx_name).
SavePng ==
    /\ npc = "save_png"
    /\ LET r == save_png(Val(index), idx_name)
       IN  IF r.raise # None
           THEN /\ error' = r.raise
                /\ npc' = "error"
                /\ UNCHANGED out_png
           ELSE /\ out_png' = r.file
                /\ npc' = "done"
                /\ UNCHANGED error
    /\ UNCHANGED << ortho_mapir, ortho_rgb, MAPIR_PROFILE, RGB_PROFILE,
                    src_path, label, profile, src, index, idx_name, bands_read,
                    out_tif >>
    /\ UNCHANGED << grid_vars, call_vars, ctl_vars, clean_vars >>

NdviNext ==
    \/ ChooseSource
    \/ OpenSource
    \/ ComputeIndex
    \/ SaveGeotiff
    \/ SavePng

SpecNdvi == NdviInit /\ [][NdviNext]_vars

\* ------------------------------------------------- single function calls
MaxLen == 17       \* np.linspace over [0, stop] with stop <= MaxLen
MaxSegs == 6       \* ... cut into at most MaxSegs segments
MaxRowIdx == 702   \* row_letter called with 0..MaxRowIdx

\* What np.linspace(0, stop, num, dtype=int) can return in binary64: the
\* samples of LinspaceInt, where an interior sample whose exact value is a
\* whole number may come out one lower when the step stop / (num - 1) is not
\* exact, because the product i * step can then fall below that number.
LinspaceOutcomes(stop, num) ==
    LET exact == LinspaceInt(stop, num)
        slack == IF stop % (num - 1) = 0 THEN {}
                 ELSE { i \in 2..(num - 1) : ((i - 1) * stop) % (num - 1) = 0 }
    IN  { [ i \in 1..num |-> IF i \in low THEN exact[i] - 1 ELSE exact[i] ]
          : low \in SUBSET slack }

\* A call np.linspace(0, h, GRID_ROWS + 1, dtype=int) of make_grid, line 92.
EdgesInit ==
    /\ fn = "np.linspace"
    /\ args \in { << h, r + 1 >> : h \in 1..MaxLen, r \in 1..MaxSegs }
    /\ ret = None
    /\ raised = None
    /\ GridIdle
    /\ NdviIdle
    /\ CtlIdle
    /\ CleanIdle

CallLinspace ==
    /\ fn = "np.linspace"
    /\ ret = None
    /\ ret' \in { Some(e) : e \in LinspaceOutcomes(args[1], args[2]) }
    /\ UNCHANGED << fn, args, raised >>
    /\ UNCHANGED << grid_vars, ndvi_vars, ctl_vars, clean_vars >>

SpecEdges == EdgesInit /\ [][CallLinspace]_vars

\* A call row_letter(idx).
RowLetterInit ==
    /\ fn = "row_letter"
    /\ args \in { << i >> : i \in 0..MaxRowIdx }
    /\ ret = None
    /\ raised = None
    /\ GridIdle
    /\ NdviIdle
    /\ CtlIdle
    /\ CleanIdle

CallRowLetter ==
    /\ fn = "row_letter"
    /\ ret = None
    /\ raised = None
    /\ LET r == row_letter(args[1])
       IN  IF r = IndexError
           THEN raised' = Some("IndexError") /\ ret' = None
           ELSE ret' = Some(r) /\ raised' = None
    /\ UNCHANGED << fn, args >>
    /\ UNCHANGED << grid_vars, ndvi_vars, ctl_vars, clean_vars >>

SpecRowLetter == RowLetterInit /\ [][CallRowLetter]_vars

\* The operand values of a call: whole band samples, one half and minus one;
\* values at the scale of eps (-eps, -eps/2, 0, eps/2, eps); the non-finite
\* values.  A pair of finite operands is taken from one scale, which keeps
\* every product of the comparisons below within 32 bits.
WholeValues == { DN(k) : k \in 0..MaxDN } \cup { Sample(EpsInv), Sample(-Den) }

TinyValues == { Sample(n) : n \in (-2)..2 }

NonFiniteValues == { f_nan, f_inf, f_ninf }

OperandPairs ==
    (WholeValues \X WholeValues) \cup (TinyValues \X TinyValues)
        \cup (NonFiniteValues \X (WholeValues \cup TinyValues \cup NonFiniteValues))
        \cup ((WholeValues \cup TinyValues) \X NonFiniteValues)

\* The array of one pixel holding v.
Array1(v) == [ p \in Pixels(1, 1) |-> v ]

\* A call _normalized_diff(a, b) on two arrays of one pixel.
NormDiffInit ==
    /\ fn = "_normalized_diff"
    /\ args \in { << Array1(ab[1]), Array1(ab[2]) >> : ab \in OperandPairs }
    /\ ret = None
    /\ raised = None
    /\ GridIdle
    /\ NdviIdle
    /\ CtlIdle
    /\ CleanIdle

CallNormalizedDiff ==
    /\ fn = "_normalized_diff"
    /\ ret = None
    /\ ret' = Some(normalized_diff(args[1], args[2]))
    /\ UNCHANGED << fn, args, raised >>
    /\ UNCHANGED << grid_vars, ndvi_vars, ctl_vars, clean_vars >>

SpecNormDiff == NormDiffInit /\ [][CallNormalizedDiff]_vars

\* --------------------------------------------------------- the controller
\* The stage functions run_full_pipeline calls, in the order of its steps.
Stages == << "run_resize", "run_odm_rgb", "run_odm_mapir", "run_ndvi",
             "run_grid_report", "run_report" >>

\* The files of the controller: RGB orthophoto, MAPIR orthophoto, NDVI_TIF.
Files(rgb, mapir, nd) == [rgb |-> rgb, mapir |-> mapir, tif |-> nd]

FilesNow == Files(ortho_rgb_exists, ortho_mapir_exists, ndvi_tif_exists)

\* What a stage function that returns may leave on disk.  An ODM job removes
\* its project directory, the old orthophoto with it, and a zero exit code of
\* the container is all it asks for: the orthophoto may or may not be there.
\* run_ndvi writes NDVI_TIF.  The other stages leave the three files alone.
AfterReturn(stage) ==
    CASE stage = "run_odm_rgb" ->
           { Files(b, ortho_mapir_exists, ndvi_tif_exists) : b \in BOOLEAN }
      [] stage = "run_odm_mapir" ->
           { Files(ortho_rgb_exists, b, ndvi_tif_exists) : b \in BOOLEAN }
      [] stage = "run_ndvi" ->
           { Files(ortho_rgb_exists, ortho_mapir_exists, TRUE) }
      [] OTHER -> { FilesNow }

\* What a stage function that raises may leave on disk.  An ODM job can fail
\* before or after it removed the project directory, and before or after the
\* container wrote the orthophoto; run_ndvi can fail after it wrote NDVI_TIF.
AfterRaise(stage) ==
    CASE stage = "run_odm_rgb" ->
           { Files(b, ortho_mapir_exists, ndvi_tif_exists) : b \in BOOLEAN }
      [] stage = "run_odm_mapir" ->
           { Files(ortho_rgb_exists, b, ndvi_tif_exists) : b \in BOOLEAN }
      [] stage = "run_ndvi" ->
           { Files(ortho_rgb_exists, ortho_mapir_exists, b)
               : b \in { ndvi_tif_exists, TRUE } }
      [] OTHER -> { FilesNow }

\* Whether a stage function can return from the present state: run_ndvi needs
\* an orthophoto (choose_source), run_grid_report needs NDVI_TIF.
CanReturn(stage) ==
    CASE stage = "run_ndvi" -> ortho_rgb_exists \/ ortho_mapir_exists
      [] stage = "run_grid_report" -> ndvi_tif_exists
      [] OTHER -> TRUE

\* The controller calls a stage function and will go on at position next.
Call(stage, next) ==
    /\ running' = stage
    /\ started' = Append(started, stage)
    /\ cpc' = next
    /\ UNCHANGED << completed, ctl_error >>

\* The controller goes on to position next without calling anything.
Goto(next) ==
    /\ cpc' = next
    /\ UNCHANGED << running, started, completed, ctl_error >>

\* The controller raises RuntimeError(what).
Raise(what) ==
    /\ cpc' = "error"
    /\ ctl_error' = Some([type |-> "RuntimeError", what |-> what])
    /\ UNCHANGED << running, started, completed >>

ctl_files == << ortho_rgb_exists, ortho_mapir_exists, ndvi_tif_exists,
                mapir_images_available >>

ctl_flags == << run_resize_step, skip_odm, skip_odm_rgb, skip_odm_mapir,
                skip_ndvi >>

\* The states run_full_pipeline is called in: any flags, any files.
CtlInit ==
    /\ run_resize_step \in BOOLEAN
    /\ skip_odm \in BOOLEAN
    /\ skip_odm_rgb \in BOOLEAN
    /\ skip_odm_mapir \in BOOLEAN
    /\ skip_ndvi \in BOOLEAN
    /\ ortho_rgb_exists \in BOOLEAN
    /\ ortho_mapir_exists \in BOOLEAN
    /\ ndvi_tif_exists \in BOOLEAN
    /\ mapir_images_available \in BOOLEAN
    /\ cpc = "step1"
    /\ running = ""
    /\ started = << >>
    /\ completed = << >>
    /\ ctl_error = None
    /\ GridIdle
    /\ NdviIdle
    /\ CallIdle
    /\ CleanIdle

\* Step 1, lines 125-130: the optional resize.
Step1Resize ==
    /\ cpc = "step1"
    /\ running = ""
    /\ IF run_resize_step THEN Call("run_resize", "step2") ELSE Goto("step2")
    /\ UNCHANGED << ctl_flags, ctl_files >>
    /\ UNCHANGED << grid_vars, ndvi_vars, call_vars, clean_vars >>

\* Step 2, lines 137-151: skip_odm sets both skip flags; the RGB job runs, or
\* is skipped when its orthophoto is there, or the controller raises.
Step2OdmRgb ==
    /\ cpc = "step2"
    /\ running = ""
    /\ skip_odm_rgb' = (skip_odm \/ skip_odm_rgb)
    /\ skip_odm_mapir' = (skip_odm \/ skip_odm_mapir)
    /\ IF skip_odm_rgb'
         THEN IF ~ortho_rgb_exists
                THEN Raise("RGB ODM skipped but no RGB orthophoto exists")
                ELSE Goto("step2_mapir")
         ELSE Call("run_odm_rgb", "step2_mapir")
    /\ UNCHANGED << run_resize_step, skip_odm, skip_ndvi, ctl_files >>
    /\ UNCHANGED << grid_vars, ndvi_vars, call_vars, clean_vars >>

\* Step 2, lines 154-162: the MAPIR job runs unless skipped or without images.
Step2OdmMapir ==
    /\ cpc = "step2_mapir"
    /\ running = ""
    /\ IF ~skip_odm_mapir /\ mapir_images_available
         THEN Call("run_odm_mapir", "step3")
         ELSE Goto("step3")
    /\ UNCHANGED << ctl_flags, ctl_files >>
    /\ UNCHANGED << grid_vars, ndvi_vars, call_vars, clean_vars >>

\* Step 3 without the check of NDVI_TIF when the index stage is skipped.
Step3Ndvi_NoCheck ==
    /\ cpc = "step3"
    /\ running = ""
    /\ IF skip_ndvi
         THEN Goto("step4")
         ELSE IF ~ortho_rgb_exists /\ ~ortho_mapir_exists
                THEN Raise("No orthophoto available for NDVI.")
                ELSE Call("run_ndvi", "step4")
    /\ UNCHANGED << ctl_flags, ctl_files >>
    /\ UNCHANGED << grid_vars, ndvi_vars, call_vars, clean_vars >>

\* Step 3, lines 166-178: the index stage, or the check of its output when it
\* is skipped.
Step3Ndvi ==
    /\ cpc = "step3"
    /\ running = ""
    /\ IF skip_ndvi
         THEN IF ~ndvi_tif_exists
                THEN Raise("NDVI skipped but NDVI output missing")
                ELSE Goto("step4")
         ELSE IF ~ortho_rgb_exists /\ ~ortho_mapir_exists
                THEN Raise("No orthophoto available for NDVI.")
                ELSE Call("run_ndvi", "step4")
    /\ UNCHANGED << ctl_flags, ctl_files >>
    /\ UNCHANGED << grid_vars, ndvi_vars, call_vars, clean_vars >>

\* Step 4, line 184.
Step4Grid ==
    /\ cpc = "step4"
    /\ running = ""
    /\ Call("run_grid_report", "step5")
    /\ UNCHANGED << ctl_flags, ctl_files >>
    /\ UNCHANGED << grid_vars, ndvi_vars, call_vars, clean_vars >>

\* Step 5, line 190.
Step5Report ==
    /\ cpc = "step5"
    /\ running = ""
    /\ Call("run_report", "done")
    /\ UNCHANGED << ctl_flags, ctl_files >>
    /\ UNCHANGED << grid_vars, ndvi_vars, call_vars, clean_vars >>

\* The stage function being executed returns: the controller is at the
\* statement after the call.
StageReturns ==
    /\ running # ""
    /\ CanReturn(running)
    /\ \E f \in AfterReturn(running) :
         /\ ortho_rgb_exists' = f.rgb
         /\ ortho_mapir_exists' = f.mapir
         /\ ndvi_tif_exists' = f.tif
    /\ running' = ""
    /\ completed' = Append(completed, running)
    /\ UNCHANGED << ctl_flags, mapir_images_available, cpc, started,
                    ctl_error >>
    /\ UNCHANGED << grid_vars, ndvi_vars, call_vars, clean_vars >>

\* A stage function that raises, under a controller that catches the
\* exception, notes it and goes on with the next step.
StageRaises_Continues ==
    /\ running # ""
    /\ \E f \in AfterRaise(running) :
         /\ ortho_rgb_exists' = f.rgb
         /\ ortho_mapir_exists' = f.mapir
         /\ ndvi_tif_exists' = f.tif
    /\ running' = ""
    /\ ctl_error' = Some([type |-> "StageError", what |-> running])
    /\ UNCHANGED << ctl_flags, mapir_images_available, cpc, started,
                    completed >>
    /\ UNCHANGED << grid_vars, ndvi_vars, call_vars, clean_vars >>

\* The stage function being executed raises: run_full_pipeline has no handler,
\* the exception leaves it.
StageRaises ==
    /\ running # ""
    /\ \E f \in AfterRaise(running) :
         /\ ortho_rgb_exists' = f.rgb
         /\ ortho_mapir_exists' = f.mapir
         /\ ndvi_tif_exists' = f.tif
    /\ running' = ""
    /\ cpc' = "error"
    /\ ctl_error' = Some([type |-> "StageError", what |-> running])
    /\ UNCHANGED << ctl_flags, mapir_images_available, started, completed >>
    /\ UNCHANGED << grid_vars, ndvi_vars, call_vars, clean_vars >>

CtlNext ==
    \/ Step1Resize
    \/ Step2OdmRgb
    \/ Step2OdmMapir
    \/ Step3Ndvi
    \/ Step4Grid
    \/ Step5Report
    \/ StageReturns
    \/ StageRaises

SpecCtl == CtlInit /\ [][CtlNext]_vars

\* ------------------------------------------------------- the cleanup tool
\* File and directory names, as texts: sequences of characters.
N_data == << "d", "a", "t", "a" >>
N_odm_project == << "o", "d", "m", "_", "p", "r", "o", "j", "e", "c", "t" >>
N_images_full == << "i", "m", "a", "g", "e", "s", "_", "f", "u", "l", "l" >>
N_images_resized ==
    << "i", "m", "a", "g", "e", "s", "_", "r", "e", "s", "i", "z", "e", "d" >>
N_rgb == << "r", "g", "b" >>
N_mapir == << "m", "a", "p", "i", "r" >>
N_img_jpg == << "i", "m", "g", ".", "j", "p", "g" >>
N_odm_project_rgb ==
    << "o", "d", "m", "_", "p", "r", "o", "j", "e", "c", "t", "_", "r", "g",
       "b" >>
N_odm_project_test ==
    << "o", "d", "m", "_", "p", "r", "o", "j", "e", "c", "t", "_", "t", "e",
       "s", "t" >>
N_project == << "p", "r", "o", "j", "e", "c", "t" >>
N_odm_orthophoto ==
    << "o", "d", "m", "_", "o", "r", "t", "h", "o", "p", "h", "o", "t", "o" >>
N_odm_orthophoto_tif ==
    << "o", "d", "m", "_", "o", "r", "t", "h", "o", "p", "h", "o", "t", "o",
       ".", "t", "i", "f" >>
N_Scans_OLD == << "S", "c", "a", "n", "s", "_", "O", "L", "D" >>
S_old == << "_", "o", "l", "d" >>
S_backup == << "_", "b", "a", "c", "k", "u", "p" >>
S_odm_project_ ==
    << "o", "d", "m", "_", "p", "r", "o", "j", "e", "c", "t", "_" >>

\* A path below PROJECT_ROOT is the sequence of its names.
\* Path.parents: the proper prefixes of a path.
Parents(path) == { SubSeq(path, 1, k) : k \in 0..(Len(path) - 1) }

\* Path.name
Name(path) == path[Len(path)]

\* str.endswith and str.startswith
EndsWith(s, suffix) ==
    /\ Len(s) >= Len(suffix)
    /\ SubSeq(s, Len(s) - Len(suffix) + 1, Len(s)) = suffix

StartsWith(s, prefix) ==
    /\ Len(s) >= Len(prefix)
    /\ SubSeq(s, 1, Len(prefix)) = prefix

\* The protected paths, each the sequence of its names.
PROTECTED ==
    { << << "a", "g", "r", "i", "v", "i", "s", "i", "o", "n" >> >>,
      << << "O", "p", "e", "n", "A", "g", "r", "i", "-", "W", "e", "a", "t", "h", "e", "r", "S", "e", "r", "v", "i", "c", "e" >> >>,
      << << "c", "o", "n", "f", "i", "g", ".", "y", "a", "m", "l" >> >>,
      << << "r", "e", "q", "u", "i", "r", "e", "m", "e", "n", "t", "s", ".", "t", "x", "t" >> >>,
      << << "r", "u", "n", ".", "p", "y" >> >>,
      << << "i", "n", "s", "t", "a", "l", "l", "_", "a", "g", "r", "i", "v", "i", "s", "i", "o", "n", ".", "s", "h" >> >>,
      << << "b", "o", "o", "t", "s", "t", "r", "a", "p", ".", "s", "h" >> >>,
      << << "c", "l", "e", "a", "n", "u", "p", ".", "p", "y" >> >>,
      << << "o", "u", "t", "p", "u", "t" >> >>,
      << << "o", "u", "t", "p", "u", "t" >>,
         << "n", "d", "v", "i" >> >>,
      << << "o", "u", "t", "p", "u", "t" >>,
         << "r", "u", "n", "s" >> >>,
      << N_data, N_images_full, N_rgb >>,
      << N_data, N_images_full, N_mapir >>,
      << N_data, N_images_resized, N_rgb >>,
      << N_data, N_images_resized, N_mapir >>,
      << N_data, N_odm_project_rgb >>,
      << N_data,
         << "o", "d", "m", "_", "p", "r", "o", "j", "e", "c", "t", "_", "m", "a", "p", "i", "r" >> >> }

\* The paths the file systems of the model are made of: the old ODM root, the
\* image folders with their rgb and mapir subfolders, a protected and an
\* unprotected ODM project, and a folder whose name ends in _old in capitals.
AllPaths ==
    { << N_data >>,
      << N_data, N_odm_project >>,
      << N_data, N_images_full >>,
      << N_data, N_images_full, N_rgb >>,
      << N_data, N_images_full, N_rgb, N_img_jpg >>,
      << N_data, N_images_full, N_mapir >>,
      << N_data, N_images_resized >>,
      << N_data, N_images_resized, N_rgb >>,
      << N_data, N_images_resized, N_mapir >>,
      << N_data, N_odm_project_rgb >>,
      << N_data, N_odm_project_rgb, N_project >>,
      << N_data, N_odm_project_test >>,
      << N_data, N_odm_project_test, N_project >>,
      << N_data, N_odm_project_test, N_project, N_odm_orthophoto >>,
      << N_data, N_odm_project_test, N_project, N_odm_orthophoto,
         N_odm_orthophoto_tif >>,
      << N_data, N_Scans_OLD >> }

\* The paths that are regular files when they exist; the others are folders.
RegularFiles == { p \in AllPaths : Name(p) \in { N_img_jpg, N_odm_orthophoto_tif } }

\* The file systems: a path exists only inside an existing folder.
FileSystems ==
    { s \in SUBSET AllPaths :
        \A p \in s : \A q \in Parents(p) : q = << >> \/ q \in s }

\* Path.exists() and Path.is_dir() on the file system s
path_exists(s, path) == path \in s
is_dir(s, path) == path \in s /\ path \notin RegularFiles

\* Path.iterdir(), Path.rglob("*"), and Path.glob(pattern*) of a folder
iterdir(s, folder) ==
    { p \in s : Len(p) = Len(folder) + 1 /\ folder \in Parents(p) }

rglob(s, folder) == { p \in s : folder \in Parents(p) }

glob_prefix(s, folder, prefix) ==
    { p \in iterdir(s, folder) : StartsWith(Name(p), prefix) }

\* shutil.rmtree(path, ignore_errors=True): a folder goes with all below it;
\* on a regular file or a missing path the error is ignored.
rmtree(s, path) ==
    IF is_dir(s, path)
      THEN { p \in s : p # path /\ path \notin Parents(p) }
      ELSE s

folder_is_empty(s, folder) == iterdir(s, folder) = {}

is_obsolete_odm_project(s, folder) ==
    IF ~is_dir(s, folder) THEN FALSE
    ELSE IF ~path_exists(s, folder \o << N_project >>) THEN FALSE
    ELSE IF path_exists(s, folder \o << N_project, N_odm_orthophoto,
                                        N_odm_orthophoto_tif >>) THEN FALSE
    ELSE TRUE

find_obsolete_items(s) ==
    LET data == << N_data >>
        old_odm == << N_data, N_odm_project >>
        old_full == << N_data, N_images_full >>
        old_resized == << N_data, N_images_resized >>
        rule1 == IF path_exists(s, old_odm) THEN { old_odm } ELSE {}
        rule2 ==
            (IF path_exists(s, old_full)
                  /\ ~path_exists(s, old_full \o << N_rgb >>)
               THEN { old_full } ELSE {})
            \cup
            (IF path_exists(s, old_resized)
                  /\ ~path_exists(s, old_resized \o << N_rgb >>)
               THEN { old_resized } ELSE {})
        rule3 == { f \in rglob(s, data) :
                     /\ is_dir(s, f)
                     /\ \/ EndsWith(StrLower(Name(f)), S_old)
                        \/ EndsWith(StrLower(Name(f)), S_backup) }
        rule4 == { f \in glob_prefix(s, data, S_odm_project_) :
                     f \notin PROTECTED /\ is_obsolete_odm_project(s, f) }
        rule5 == { f \in rglob(s, data) :
                     is_dir(s, f) /\ folder_is_empty(s, f)
                       /\ f \notin PROTECTED }
    IN  rule1 \cup rule2 \cup rule3 \cup rule4 \cup rule5

\* safe_delete(path, dry, interactive), with the answer given to ask(): the
\* file system it leaves.
safe_delete(s, path, is_dry, is_interactive, answer) ==
    IF path \in PROTECTED THEN s
    ELSE IF is_interactive /\ ~answer THEN s
    ELSE IF ~is_dry THEN rmtree(s, path)
    ELSE s

\* The states main is called in: any file system, any flags.
CleanInit ==
    /\ fs \in FileSystems
    /\ fs_before = fs
    /\ dry \in BOOLEAN
    /\ interactive \in BOOLEAN
    /\ kpc = "start"
    /\ obsolete_items = {}
    /\ GridIdle
    /\ NdviIdle
    /\ CallIdle
    /\ CtlIdle

\* main, lines 172-176: the scan; nothing found ends the run.
Scan ==
    /\ kpc = "start"
    /\ obsolete_items' = find_obsolete_items(fs)
    /\ kpc' = IF obsolete_items' = {} THEN "done" ELSE "delete"
    /\ UNCHANGED << fs, fs_before, dry, interactive >>
    /\ UNCHANGED << grid_vars, ndvi_vars, call_vars, ctl_vars >>

\* main, lines 180-181: one turn of the loop.  The list comes from a set, so
\* the items are taken in any order.
DeleteItem ==
    /\ kpc = "delete"
    /\ \E item \in obsolete_items :
         /\ \E answer \in (IF interactive THEN BOOLEAN ELSE { FALSE }) :
              fs' = safe_delete(fs, item, dry, interactive, answer)
         /\ obsolete_items' = obsolete_items \ { item }
    /\ kpc' = IF obsolete_items' = {} THEN "done" ELSE "delete"
    /\ UNCHANGED << fs_before, dry, interactive >>
    /\ UNCHANGED << grid_vars, ndvi_vars, call_vars, ctl_vars >>

CleanNext ==
    \/ Scan
    \/ DeleteItem

SpecClean == CleanInit /\ [][CleanNext]_vars

\* ------------------------------------------------------ claim vocabulary
\* Pixel p lies in the pixel range [r0,r1) x [c0,c1) of cell record c.
InCell(c, p) == c.r0 <= p[1] /\ p[1] < c.r1 /\ c.c0 <= p[2] /\ p[2] < c.c1

\* The first make_grid call has returned.
Pass1Done ==
    \/ pc \in { "check", "dynamic", "overlay", "table", "categories", "done" }
    \/ (pc \in { "make_grid", "loop" } /\ classifier = "dynamic")

\* The second make_grid call has been decided on / has returned.
Pass2Triggered == pc = "dynamic" \/ classifier = "dynamic"
Pass2Done == classifier = "dynamic" /\ pc \in { "overlay", "table", "categories", "done" }

\* The degeneracy verdict has been taken.
Checked == Pass2Triggered \/ pc \in { "overlay", "table", "categories", "done" }

\* Indices of the cells of a list whose mean is not NoData.
Classified(cs) == { i \in 1..Len(cs) : cs[i].mean_ndvi # None }

\* An edge sequence over [0, n] with k segments: non-decreasing, from 0 to n.
GoodEdges(e, n, k) ==
    /\ Len(e) = k + 1
    /\ e[1] = 0
    /\ e[k + 1] = n
    /\ \A i \in 1..k : e[i] <= e[i + 1]

\* The cell ranges of a list partition the raster's pixels.
Partitions(cs) ==
    /\ \A i \in 1..Len(cs) :
          /\ 0 <= cs[i].r0 /\ cs[i].r0 <= cs[i].r1 /\ cs[i].r1 <= ndvi.h
          /\ 0 <= cs[i].c0 /\ cs[i].c0 <= cs[i].c1 /\ cs[i].c1 <= ndvi.w
    /\ \A p \in Pixels(ndvi.h, ndvi.w) :
          Cardinality({ i \in 1..Len(cs) : InCell(cs[i], p) }) = 1

\* C1: the row and column edges make_grid computes are non-decreasing, start
\* at 0 and end at H (resp. W), and the pixel ranges of the R*C cells of a
\* returned list cover [0,H) x [0,W) with every pixel in exactly one cell.
C1_EdgesPartitionRaster ==
    /\ pc = "loop" =>
          /\ GoodEdges(mg_row_edges, ndvi.h, GRID_ROWS)
          /\ GoodEdges(mg_col_edges, ndvi.w, GRID_COLS)
    /\ Pass1Done =>
          /\ GoodEdges(row_edges, ndvi.h, GRID_ROWS)
          /\ GoodEdges(col_edges, ndvi.w, GRID_COLS)
          /\ Len(cells) = GRID_ROWS * GRID_COLS
          /\ Partitions(cells)
          /\ Partitions(pass1_cells)

\* A returned grid whose height is not a multiple of the row count and whose
\* width is smaller than the column count.
C1_Witness ==
    /\ pc = "done"
    /\ ndvi.h = 3 /\ GRID_ROWS = 2
    /\ ndvi.w = 1 /\ GRID_COLS = 2
    /\ row_edges = << 0, 1, 3 >>
    /\ col_edges = << 0, 0, 1 >>

\* The distinct classes among the Pass 1 cells whose mean is not NoData.
Pass1Classes == { pass1_cells[i].class : i \in Classified(pass1_cells) }

\* C2: Pass 2 is executed if and only if, after Pass 1, the set of distinct
\* classes among the cells with a non-NoData mean has exactly one element and
\* that element is not no_data; NoData cells are ignored by the test.
C2_Pass2IffDegenerate ==
    /\ Checked =>
          (Pass2Triggered <=>
              (Cardinality(Pass1Classes) = 1 /\ Pass1Classes # { "no_data" }))
    /\ pc = "done" =>
          (passes = 2 <=>
              (Cardinality(Pass1Classes) = 1 /\ Pass1Classes # { "no_data" }))

\* Pass 2 ran on a grid that has a NoData cell next to classified cells.
C2_Witness ==
    /\ pc = "done"
    /\ passes = 2
    /\ \E i \in 1..Len(pass1_cells) : pass1_cells[i].mean_ndvi = None
    /\ Cardinality(Classified(pass1_cells)) >= 2

\* The comparison rule of the spec for thresholds (t1, t2).
FollowsRule(c, t1, t2) ==
    /\ c.mean_ndvi = None => c.class = "no_data"
    /\ c.mean_ndvi # None =>
          /\ Val(c.mean_ndvi) < t1 => c.class = "poor"
          /\ (t1 <= Val(c.mean_ndvi) /\ Val(c.mean_ndvi) < t2) => c.class = "medium"
          /\ Val(c.mean_ndvi) >= t2 => c.class = "good"

\* C3: under the GridConfig invariant (poor_max not above medium_max) Pass 1
\* gives every cell the class of the rule  mean < poor_max: poor,
\* poor_max <= mean < medium_max: medium, mean >= medium_max: good,
\* NoData: no_data;  Pass 2 gives every cell the class of the same rule with
\* (q33, q66) for the thresholds.
C3_ClassByThresholds ==
    /\ POOR_MAX <= MEDIUM_MAX =>
          /\ \A i \in 1..Len(pass1_cells) :
                FollowsRule(pass1_cells[i], POOR_MAX, MEDIUM_MAX)
          /\ classifier = "absolute" =>
                \A i \in 1..Len(mg_cells) :
                    FollowsRule(mg_cells[i], POOR_MAX, MEDIUM_MAX)
    /\ (classifier = "dynamic" /\ pc # "make_grid") =>
          \A i \in 1..Len(mg_cells) : FollowsRule(mg_cells[i], Val(q33), Val(q66))
    /\ Pass2Done =>
          \A i \in 1..Len(cells) : FollowsRule(cells[i], Val(q33), Val(q66))

\* Pass 1 (all medium) had a cell whose mean equals poor_max, and Pass 2 a
\* cell whose mean equals the upper of two different thresholds.
C3_Witness ==
    /\ pc = "done"
    /\ passes = 2
    /\ POOR_MAX < MEDIUM_MAX
    /\ \E i \in 1..Len(pass1_cells) :
          pass1_cells[i].mean_ndvi = Some(POOR_MAX) /\ pass1_cells[i].class = "medium"
    /\ Val(q33) < Val(q66)
    /\ \E i \in 1..Len(cells) :
          cells[i].mean_ndvi = q66 /\ cells[i].class = "good"

\* A second Pass 1 case: means equal to poor_max and to medium_max.
C3_BoundaryReached ==
    /\ pc = "done"
    /\ POOR_MAX < MEDIUM_MAX
    /\ \E i \in 1..Len(cells) :
          cells[i].mean_ndvi = Some(POOR_MAX) /\ cells[i].class = "medium"
    /\ \E i \in 1..Len(cells) :
          cells[i].mean_ndvi = Some(MEDIUM_MAX) /\ cells[i].class = "good"

\* The non-NoData means of a cell list, as a set.
MeanSet(cs) == { Val(cs[i].mean_ndvi) : i \in Classified(cs) }

\* The k-th order statistic (k from 0) of the non-NoData means of a list:
\* the mean x with at most k means below it and more than k means up to it.
OrderStat(cs, k) ==
    CHOOSE x \in MeanSet(cs) :
        /\ Cardinality({ i \in Classified(cs) : Val(cs[i].mean_ndvi) < x }) <= k
        /\ Cardinality({ i \in Classified(cs) : Val(cs[i].mean_ndvi) <= x }) > k

\* t is the q-th percentile of the non-NoData means of a list, by linear
\* interpolation between the two order statistics around q/100 * (n - 1).
IsPercentile(t, cs, q) ==
    LET n == Cardinality(Classified(cs))
        lo == (q * (n - 1)) \div 100
        hi == IF lo + 1 <= n - 1 THEN lo + 1 ELSE n - 1
        gamma == (q * (n - 1)) % 100
    IN  100 * t = 100 * OrderStat(cs, lo)
                    + gamma * (OrderStat(cs, hi) - OrderStat(cs, lo))

\* A list holds one record for each (row, col) of the grid and nothing else.
OnePerRowCol(cs) ==
    /\ Len(cs) = GRID_ROWS * GRID_COLS
    /\ \A r \in 0..(GRID_ROWS - 1) : \A c \in 0..(GRID_COLS - 1) :
          Cardinality({ i \in 1..Len(cs) :
                          cs[i].row_idx = r /\ cs[i].col_idx = c }) = 1

\* Number of occurrences of x in a sequence.
Occurrences(sq, x) == Cardinality({ i \in 1..Len(sq) : sq[i] = x })

\* C4: when Pass 2 runs, q33 and q66 are the 33rd and 66th percentiles
\* (linear interpolation) of exactly the non-NoData means of the complete
\* Pass 1 list: all R*C cells are there before the thresholds exist, and the
\* values used are those means, each as often as it occurs.
C4_ThresholdsArePass1Percentiles ==
    /\ (pc \in { "make_grid", "loop" } /\ classifier = "absolute") =>
          (q33 = None /\ q66 = None)
    /\ pc = "dynamic" => (OnePerRowCol(pass1_cells) /\ cells = pass1_cells)
    /\ q33 # None =>
          /\ OnePerRowCol(pass1_cells)
          /\ Len(values) = Cardinality(Classified(pass1_cells))
          /\ \A x \in MeanSet(pass1_cells) :
                Occurrences(values, x) =
                    Cardinality({ i \in Classified(pass1_cells) :
                                    Val(pass1_cells[i].mean_ndvi) = x })
          /\ IsPercentile(Val(q33), pass1_cells, 33)
          /\ IsPercentile(Val(q66), pass1_cells, 66)

\* Thresholds derived from a Pass 1 list with a NoData cell and different
\* means, both thresholds strictly between two means.
C4_Witness ==
    /\ q33 # None
    /\ \E i \in 1..Len(pass1_cells) : pass1_cells[i].mean_ndvi = None
    /\ Cardinality(MeanSet(pass1_cells)) >= 2
    /\ Val(q33) \notin MeanSet(pass1_cells)
    /\ Val(q66) \notin MeanSet(pass1_cells)
    /\ Val(q33) < Val(q66)

\* Some cell has different classes in the Pass 1 list and the final list.
Pass2Differs == \E i \in 1..Len(cells) : cells[i].class # pass1_cells[i].class

\* The invariant the spec puts on GridConfig.
GridConfigValid == POOR_MAX < MEDIUM_MAX

\* C5 as stated: whenever Pass 2 ran, its class assignment differs from
\* Pass 1's in at least one cell (here for valid configurations only, the
\* ones the spec promises anything for).
C5_Pass2AlwaysDiffers == (GridConfigValid /\ Pass2Done) => Pass2Differs

\* C5 as amended: whenever Pass 2 ran after a Pass 1 that put every
\* classified cell in poor or in medium, its class assignment differs from
\* Pass 1's in at least one cell.
C5_Pass2DiffersUnlessGood ==
    (Pass2Done /\ "good" \notin Pass1Classes) => Pass2Differs

\* Pass 2 ran after an all-poor Pass 1 over cells with different means.
C5_Witness ==
    /\ Pass2Done
    /\ Pass1Classes = { "poor" }
    /\ Cardinality(MeanSet(pass1_cells)) >= 2
    /\ Pass2Differs

\* The class an exported record carries is the Pass 2 class of its cell.
IsPass2Class(i, cls) ==
    FollowsRule([ mean_ndvi |-> pass1_cells[i].mean_ndvi, class |-> cls ],
                Val(q33), Val(q66))

\* C6: make_grid is called at most twice, first with the absolute and then at
\* most once with the dynamic classifier, also when Pass 2 is degenerate; and
\* when Pass 2 ran, the overlay, the cell table and the categories table each
\* hold the R*C cells with their Pass 2 classes.
C6_AtMostTwoPassesNoMixture ==
    /\ passes <= 2
    /\ classifier = "absolute" => passes <= 1
    /\ pc = "done" => passes >= 1
    /\ (Pass2Done /\ out_overlay # << >>) =>
          /\ Len(out_overlay[1].texts) = GRID_ROWS * GRID_COLS
          /\ \A i \in 1..Len(out_overlay[1].texts) :
                /\ out_overlay[1].texts[i].label = pass1_cells[i].cell_id
                /\ \E cls \in { "poor", "medium", "good", "no_data" } :
                      /\ IsPass2Class(i, cls)
                      /\ out_overlay[1].texts[i].color = COLOR_BY_CLASS(cls)
    /\ (Pass2Done /\ out_table # << >>) =>
          /\ Len(out_table[1]) = GRID_ROWS * GRID_COLS
          /\ \A i \in 1..Len(out_table[1]) :
                /\ out_table[1][i].cell_id = pass1_cells[i].cell_id
                /\ IsPass2Class(i, out_table[1][i].class)
    /\ (Pass2Done /\ out_categories # << >>) =>
          \A i \in 1..Len(pass1_cells) :
             \A cls \in { "poor", "medium", "good", "no_data" } :
                IsPass2Class(i, cls) <=>
                    \E k \in 1..Len(out_categories[1]) :
                        out_categories[1][k][cls] = pass1_cells[i].cell_id

\* A finished run whose Pass 2 is itself degenerate (every classified cell
\* good) after an all-poor Pass 1 of several cells.
C6_Witness ==
    /\ pc = "done"
    /\ passes = 2
    /\ Pass1Classes = { "poor" }
    /\ Cardinality(Classified(cells)) >= 2
    /\ \A i \in Classified(cells) : cells[i].class = "good"

\* The lists of cell records a state holds, each with nothing but records
\* make_grid built.
CellLists == { mg_cells, cells, pass1_cells }

\* The finite pixels in the pixel range of a cell record.
FinitePixelsOf(c) ==
    { p \in Pixels(ndvi.h, ndvi.w) : InCell(c, p) /\ ndvi.px[p] # NaN }

\* C7: a cell none of whose pixels is finite has class no_data in the Pass 1
\* list and in the Pass 2 list, whatever the dynamic thresholds are, and a
\* cell with a finite pixel never has class no_data.
C7_NoDataIffNoFinitePixel ==
    /\ \A cs \in CellLists : \A i \in 1..Len(cs) :
          (FinitePixelsOf(cs[i]) = {}) <=> (cs[i].class = "no_data")
    /\ out_table # << >> =>
          \A i \in 1..Len(out_table[1]) :
              (FinitePixelsOf(cells[i]) = {}) <=> (out_table[1][i].class = "no_data")

\* Pass 2 ran over a grid with a cell of non-finite pixels only and a cell
\* with a non-finite and a finite pixel.
C7_Witness ==
    /\ Pass2Done
    /\ \E i \in 1..Len(cells) :
          /\ cells[i].r0 < cells[i].r1 /\ cells[i].c0 < cells[i].c1
          /\ FinitePixelsOf(cells[i]) = {}
          /\ cells[i].class = "no_data" /\ pass1_cells[i].class = "no_data"
    /\ \E i \in 1..Len(cells) :
          /\ FinitePixelsOf(cells[i]) # {}
          /\ \E p \in Pixels(ndvi.h, ndvi.w) : InCell(cells[i], p) /\ ndvi.px[p] = NaN

\* Every cell of the Pass 1 list has a NoData mean.
AllNoData == pass1_cells # << >> /\ Classified(pass1_cells) = {}

\* C8: if every Pass 1 cell has a NoData mean, no percentile is computed and
\* no second pass is made; the run goes on without error to its end, where
\* the final and exported list is Pass 1's all-no_data list.
C8_AllNoDataIsFinal ==
    AllNoData =>
        /\ q33 = None /\ q66 = None /\ values = << >>
        /\ passes = 1 /\ classifier = "absolute"
        /\ pc \notin { "dynamic", "error" }
        /\ pc # "done" => ENABLED Next
        /\ cells = pass1_cells
        /\ \A i \in 1..Len(cells) : cells[i].class = "no_data"
        /\ pc = "done" =>
              /\ Len(out_table[1]) = GRID_ROWS * GRID_COLS
              /\ \A i \in 1..Len(out_table[1]) : out_table[1][i].class = "no_data"

\* A finished run over a raster of several cells, all without finite pixel.
C8_Witness ==
    /\ pc = "done"
    /\ AllNoData
    /\ Len(cells) >= 2
    /\ ndvi.h * ndvi.w >= 2

\* Sum of the finite pixel values of a set of pixels, value by value.
RECURSIVE SumByValue(_, _)
SumByValue(F, vals) ==
    IF vals = {} THEN 0
    ELSE LET v == CHOOSE x \in vals : TRUE
         IN  v * Cardinality({ p \in F : ndvi.px[p] = << v >> })
               + SumByValue(F, vals \ {v})

\* C9: the mean of a cell is NoData exactly when the cell has no finite
\* pixel; otherwise it is the sum of its finite pixels divided by their
\* number; a NoData mean is never 0.0, in the list or in the cell table.
C9_MeanOfFinitePixels ==
    /\ \A cs \in CellLists : \A i \in 1..Len(cs) :
          LET F == FinitePixelsOf(cs[i])
          IN  /\ (F = {}) <=> (cs[i].mean_ndvi = None)
              /\ F # {} =>
                    Val(cs[i].mean_ndvi) * Cardinality(F)
                        = SumByValue(F, { Val(x) : x \in PixelSet \ {NaN} })
    /\ out_table # << >> =>
          \A i \in 1..Len(out_table[1]) :
              (FinitePixelsOf(cells[i]) = {}) <=> (out_table[1][i].mean_ndvi = << >>)

\* A cell with a non-finite pixel and two finite pixels of different value.
C9_Witness ==
    \E i \in 1..Len(cells) :
        /\ \E p \in Pixels(ndvi.h, ndvi.w) : InCell(cells[i], p) /\ ndvi.px[p] = NaN
        /\ \E p, q \in FinitePixelsOf(cells[i]) : ndvi.px[p] # ndvi.px[q]
        /\ cells[i].mean_ndvi # None
        /\ Val(cells[i].mean_ndvi) > 0

\* C10: every make_grid call that returned gave exactly R*C records, one for
\* each (row, col) with 0 <= row < R and 0 <= col < C, whatever H and W are.
C10_OneCellPerRowCol ==
    /\ Pass1Done => (OnePerRowCol(pass1_cells) /\ OnePerRowCol(cells))
    /\ pc = "loop" =>
          \A i \in 1..Len(mg_cells) :
              /\ mg_cells[i].row_idx = (i - 1) \div GRID_COLS
              /\ mg_cells[i].col_idx = (i - 1) % GRID_COLS

\* Both passes returned for a raster with fewer pixel rows than grid rows and
\* fewer pixel columns than grid columns.
C10_Witness ==
    /\ Pass2Done
    /\ ndvi.h < GRID_ROWS
    /\ ndvi.w < GRID_COLS

\* ------------------------------------------------------------ claims 11-20
\* The lengths of the segments an edge sequence cuts.
SegLengths(e) == { e[i + 1] - e[i] : i \in 1..(Len(e) - 1) }

\* C11: for every H >= 1 and R >= 1 the R segments of the edge sequence
\* np.linspace(0, H, R + 1, dtype=int) have lengths that differ by at most one
\* pixel (the same call cuts the columns).
C11_SegmentsDifferByAtMostOne ==
    (fn = "np.linspace" /\ ret # None) =>
        /\ Len(Val(ret)) = args[2]
        /\ \A x, y \in SegLengths(Val(ret)) : x - y <= 1

\* 17 pixel rows cut into 5 segments of lengths 3 and 4.
C11_Witness ==
    /\ fn = "np.linspace"
    /\ args = << 17, 6 >>
    /\ ret = Some(<< 0, 3, 6, 10, 13, 17 >>)

\* The spreadsheet column name of a zero-based index: A..Z, AA..ZZ, AAA, ...
RECURSIVE ColumnName(_)
ColumnName(n) ==
    IF n < Len(letters) THEN << letters[n + 1] >>
    ELSE Append(ColumnName(n \div Len(letters) - 1), letters[(n % Len(letters)) + 1])

\* C12: for every idx >= 0, row_letter(idx) is the spreadsheet-style column
\* name of idx (0 -> A, 25 -> Z, 26 -> AA, 27 -> AB, ...): the call never
\* fails, and no smaller index has the same label.
C12_RowLetterIsColumnName ==
    (fn = "row_letter" /\ (ret # None \/ raised # None)) =>
        /\ raised = None
        /\ ret = Some(ColumnName(args[1]))
        /\ \A j \in 0..(args[1] - 1) : row_letter(j) # Val(ret)

\* run_ndvi ended in the error choose_source raises.
NoSource == npc = "error" /\ Val(error).what = "no_orthophoto"

\* choose_source has returned a source to run_ndvi.
SourceChosen == npc # "start" /\ ~NoSource

AfterCompute ==
    \/ npc \in { "save_tif", "save_png", "done" }
    \/ (npc = "error" /\ Val(error).what # "no_orthophoto")

\* The normalised mode of the selected profile is one of the selectors.
Supported == ModeOf(profile) \in { S_nir_red, S_nir_green, S_pseudo }

\* The two band settings the mode of the selected profile reads, in order.
BandsOfMode ==
    IF ModeOf(profile) = S_nir_green
    THEN << profile.nir_band, profile.green_band >>
    ELSE << profile.nir_band, profile.red_band >>

\* Band index i is outside 1..band_count of the opened source.
OutOfRange(i) == i < 1 \/ i > src.profile.count

\* C14: when a band the mode reads is configured outside [1, band_count]
\* (negative, 0, or band_count + 1), compute_index ends in the invalid-band-index error
\* that names the first such index and the range 1..band_count, and no index
\* array and no output exist; no read is ever made with another index than
\* the configured one, so nothing is clamped or wrapped.
C14_BadBandIndexRaises ==
    (AfterCompute /\ Supported) =>
        LET b == BandsOfMode
        IN  /\ (OutOfRange(b[1]) \/ OutOfRange(b[2])) =>
                  /\ npc = "error"
                  /\ Val(error).type = "ValueError"
                  /\ Val(error).what = "invalid_band_index"
                  /\ Val(error).index = (IF OutOfRange(b[1]) THEN b[1] ELSE b[2])
                  /\ Val(error).first = 1
                  /\ Val(error).last = src.profile.count
                  /\ index = None
                  /\ out_tif = None /\ out_png = None
            /\ \A k \in 1..Len(bands_read) :
                  bands_read[k] = b[k] /\ ~OutOfRange(bands_read[k])

\* The first band was read and the second setting is band_count + 1.
C14_Witness ==
    /\ npc = "error"
    /\ Val(error).what = "invalid_band_index"
    /\ Val(error).index = src.profile.count + 1
    /\ Len(bands_read) = 1

\* C15: the index array compute_index returns is _normalized_diff(a, b) with
\* a the band of the nir_band setting in every mode and b the band of the
\* red_band setting in the modes nir_red and pseudo, of the green_band
\* setting in the mode nir_green; exactly these two bands are read, so the
\* green_band setting has no part in the result outside nir_green.
C15_OperandsByMode ==
    index # None =>
        LET mode == ModeOf(profile)
            a == src.bands[profile.nir_band]
        IN  /\ mode \in { S_nir_red, S_nir_green, S_pseudo }
            /\ mode \in { S_nir_red, S_pseudo } =>
                  /\ bands_read = << profile.nir_band, profile.red_band >>
                  /\ Val(index) = normalized_diff(a, src.bands[profile.red_band])
            /\ mode = S_nir_green =>
                  /\ bands_read = << profile.nir_band, profile.green_band >>
                  /\ Val(index) = normalized_diff(a, src.bands[profile.green_band])

\* A run in pseudo mode went through with three different band settings, the
\* green one not being a band of the source.
C15_Witness ==
    /\ npc = "done"
    /\ ModeOf(profile) = S_pseudo
    /\ profile.nir_band = 2 /\ profile.red_band = 1
    /\ OutOfRange(profile.green_band)
    /\ Val(index)[<< 0, 0 >>] = << EpsInv, 3 * EpsInv + 1 >>

\* The index_mode setting of a profile is, as written, one of the selectors.
ModeIsSelector(prof) ==
    prof.index_mode \in { Some(S_nir_red), Some(S_nir_green), Some(S_pseudo) }

\* run_ndvi ended in the unsupported-mode error, raised before any band was
\* read and with no index array and no output.
UnsupportedRaised ==
    /\ npc = "error"
    /\ Val(error).type = "ValueError"
    /\ Val(error).what = "unsupported_index_mode"
    /\ Val(error).label = label
    /\ bands_read = << >>
    /\ index = None
    /\ out_tif = None /\ out_png = None

\* C16 as stated: an index_mode that is not one of the selectors nir_red,
\* nir_green, pseudo (a missing or empty one included) makes compute_index
\* fail with the unsupported-mode error, without reading a band and without
\* producing an array.
C16_NonSelectorRaises ==
    (AfterCompute /\ ~ModeIsSelector(profile)) => UnsupportedRaised

\* C16, amended: compute_index fails with the unsupported-mode error exactly
\* when the index_mode, stripped of surrounding whitespace and lower-cased,
\* is not one of the selectors (a missing or empty one included); it then
\* has read no band and produced no array.
C16_UnrecognisedModeRaises ==
    AfterCompute =>
        /\ ~Supported => UnsupportedRaised
        /\ Supported => (error = None \/ Val(error).what # "unsupported_index_mode")

\* The profile has no index_mode and the run ended in the error.
C16_Witness ==
    /\ profile # None
    /\ profile.index_mode = None
    /\ UnsupportedRaised

\* The operands and the result of the finished call of _normalized_diff.
Called == fn = "_normalized_diff" /\ ret # None
OperandA == args[1][<< 0, 0 >>]
OperandB == args[2][<< 0, 0 >>]
Result == Val(ret)[<< 0, 0 >>]

\* x is a number of [-1, 1].
InUnitRange(x) == np_isfinite(x) /\ -x[2] <= x[1] /\ x[1] <= x[2]

\* (a - b) / (a + b) of two finite samples with a + b # 0, in lowest terms.
TrueRatio(a, b) ==
    Reduce((a[1] - b[1]) * Sign(a[1] + b[1]), Abs(a[1] + b[1]))

\* The numbers x and y differ by at most eps.
WithinEps(x, y) == Abs(x[1] * y[2] - y[1] * x[2]) * EpsInv <= x[2] * y[2]

\* C17 as stated: for all finite operands a, b with a + b # 0 the result of
\* _normalized_diff lies in [-1, 1] and equals (a - b) / (a + b) within eps.
C17_RatioForAllFinite ==
    (Called /\ np_isfinite(OperandA) /\ np_isfinite(OperandB)
            /\ OperandA[1] + OperandB[1] # 0) =>
        /\ InUnitRange(Result)
        /\ WithinEps(Result, TrueRatio(OperandA, OperandB))

\* C17, amended: for all finite operands a >= 0, b >= 0 with a + b >= 1 the
\* result of _normalized_diff lies in [-1, 1] and equals (a - b) / (a + b)
\* within eps.
C17_RatioForBandValues ==
    (Called /\ np_isfinite(OperandA) /\ np_isfinite(OperandB)
            /\ OperandA[1] >= 0 /\ OperandB[1] >= 0
            /\ OperandA[1] + OperandB[1] >= Den) =>
        /\ InUnitRange(Result)
        /\ WithinEps(Result, TrueRatio(OperandA, OperandB))

\* a = 2 and b = 1 gave 1 / (3 + eps), which is not 1/3 but within eps of it.
C17_Witness ==
    /\ Called
    /\ OperandA = DN(2) /\ OperandB = DN(1)
    /\ Result = << EpsInv, 3 * EpsInv + 1 >>
    /\ Result # TrueRatio(OperandA, OperandB)

\* C18: for a = b = 0 the result of _normalized_diff is finite and equals 0.
C18_ZeroOperandsGiveZero ==
    (Called /\ OperandA = DN(0) /\ OperandB = DN(0)) =>
        /\ np_isfinite(Result)
        /\ Result[1] = 0

\* The call with a = b = 0 returned 0.
C18_Witness ==
    /\ Called
    /\ OperandA = DN(0) /\ OperandB = DN(0)
    /\ Result = << 0, 1 >>

\* C19: the result of _normalized_diff is non-finite if and only if at least
\* one operand is non-finite: non-finite operands propagate, and finite
\* operands always give a finite result.
C19_NonFiniteIffOperand ==
    Called =>
        (~np_isfinite(Result) <=>
            (~np_isfinite(OperandA) \/ ~np_isfinite(OperandB)))

\* The dataset stored in the orthophoto file run_ndvi opened.
SourceFile == Val(IF src_path = ORTHO_MAPIR THEN ortho_mapir ELSE ortho_rgb)

\* Descriptor out equals descriptor of in every field but those of except.
SameBut(out, of, except) ==
    /\ DOMAIN out = DOMAIN of
    /\ \A f \in (DOMAIN of) \ except : out[f] = of[f]

\* C20 as stated: the descriptor of the written GeoTIFF is the source's except
\* for the band count (1) and the pixel type (float32); every other field,
\* the no-data setting among them, equals the source's; and the descriptor of
\* the source is left as it was.
C20_DescriptorButCountAndType ==
    out_tif # None =>
        /\ SameBut(Val(out_tif).profile, SourceFile.profile, { "count", "dtype" })
        /\ Val(out_tif).profile.count = 1
        /\ Val(out_tif).profile.dtype = "float32"
        /\ src.profile = SourceFile.profile

\* C20, amended: the descriptor of the written GeoTIFF is the source's except
\* for the band count (1), the pixel type (float32) and the no-data setting
\* (none); every other field equals the source's; and the descriptor of the
\* source is left as it was.
C20_DescriptorButCountTypeNodata ==
    out_tif # None =>
        /\ SameBut(Val(out_tif).profile, SourceFile.profile,
                   { "count", "dtype", "nodata" })
        /\ Val(out_tif).profile.count = 1
        /\ Val(out_tif).profile.dtype = "float32"
        /\ Val(out_tif).profile.nodata = None
        /\ src.profile = SourceFile.profile

\* The index of an 8-bit source of two bands with a no-data value was written.
C20_Witness ==
    /\ out_tif # None
    /\ SourceFile.profile.count = 2
    /\ SourceFile.profile.dtype = "uint8"
    /\ SourceFile.profile.nodata = Some(0)
    /\ Val(out_tif).profile.nodata = None
    /\ Val(out_tif).data = Val(index)

\* ------------------------------------------------------------ claims 21-30
\* C21: whenever run_ndvi ends in an error (no source, invalid band index,
\* unsupported mode, or a later failure) it has written neither the index
\* GeoTIFF nor the PNG; when it has ended, either both outputs were written
\* or none.
C21_ErrorLeavesNoOutput ==
    /\ npc = "error" => (out_tif = None /\ out_png = None)
    /\ npc \in { "done", "error" } => (out_tif = None <=> out_png = None)

\* The elements of a sequence.
Range(seq) == { seq[i] : i \in 1..Len(seq) }

\* The place of a stage function in the order of the pipeline.
StageIndex(stage) == CHOOSE i \in 1..Len(Stages) : Stages[i] = stage

\* The stage function whose exception ended the run, if one did.
StageFailed(stage) ==
    ctl_error = Some([type |-> "StageError", what |-> stage])

\* The controller itself raised RuntimeError(what).
ControllerRaised(what) ==
    ctl_error = Some([type |-> "RuntimeError", what |-> what])

\* C22: the stage functions are called in the order resize, ODM-RGB,
\* ODM-MAPIR, index, grid, report, resize only when requested; a stage is
\* called only when every stage called before it has returned; and once a
\* stage or a dependency check has raised, the controller takes no further
\* step, so that no later stage is called.
C22_StagesInOrder ==
    /\ [](/\ \A i, j \in 1..Len(started) :
               i < j => StageIndex(started[i]) < StageIndex(started[j])
          /\ "run_resize" \in Range(started) => run_resize_step
          /\ running # "" =>
               /\ started # << >>
               /\ running = started[Len(started)]
               /\ completed = SubSeq(started, 1, Len(started) - 1)
          /\ (running = "" /\ ctl_error = None) => completed = started
          /\ \A s \in Range(Stages) :
               StageFailed(s) =>
                 /\ started # << >>
                 /\ s = started[Len(started)]
                 /\ completed = SubSeq(started, 1, Len(started) - 1)
          /\ StageFailed("run_ndvi") =>
               /\ "run_grid_report" \notin Range(started)
               /\ "run_report" \notin Range(started))
    /\ [][ctl_error = None]_vars

\* A run in which all six stages ran to the end.
C22_Witness ==
    /\ cpc = "done"
    /\ running = ""
    /\ completed = Stages

\* The controller's checks of the orthophotos, lines 145-148 and 174-177.
OrthophotoMissingRaised ==
    \/ ControllerRaised("RGB ODM skipped but no RGB orthophoto exists")
    \/ ControllerRaised("No orthophoto available for NDVI.")

\* C23: with skip_odm no ODM job is called, and once the controller is past
\* its orthophoto checks it has failed for a missing orthophoto exactly when
\* neither the RGB nor the MAPIR orthophoto exists.
C23_SkipOdmFailsIffNoOrthophoto ==
    skip_odm =>
      /\ "run_odm_rgb" \notin Range(started)
      /\ "run_odm_mapir" \notin Range(started)
      /\ OrthophotoMissingRaised => "run_ndvi" \notin Range(started)
      /\ (cpc \notin { "step1", "step2" }) =>
           (OrthophotoMissingRaised
              <=> (~ortho_rgb_exists /\ ~ortho_mapir_exists))

\* C24: with skip_ndvi run_ndvi is never called; at step 3 the controller
\* raises when NDVI_TIF is missing, with neither the grid nor the report stage
\* called, and goes on to step 4 when it exists, where run_grid_report is
\* called with that file still in place.
C24_SkipNdviUsesExistingFile ==
    /\ [](skip_ndvi =>
            /\ "run_ndvi" \notin Range(started)
            /\ ControllerRaised("NDVI skipped but NDVI output missing") =>
                 /\ ~ndvi_tif_exists
                 /\ "run_grid_report" \notin Range(started)
                 /\ "run_report" \notin Range(started)
            /\ "run_grid_report" \in Range(started) => ndvi_tif_exists)
    /\ [][(skip_ndvi /\ running = "") =>
            /\ cpc = "step3" =>
                 IF ndvi_tif_exists
                   THEN cpc' = "step4" /\ ctl_error' = None
                   ELSE /\ ControllerRaised(
                             "NDVI skipped but NDVI output missing")'
                        /\ UNCHANGED started
            /\ cpc = "step4" =>
                 /\ started' = Append(started, "run_grid_report")
                 /\ ndvi_tif_exists']_vars

\* The index stage was skipped and the grid stage ran on the existing file.
C24_Witness ==
    /\ skip_ndvi
    /\ ndvi_tif_exists
    /\ "run_ndvi" \notin Range(started)
    /\ "run_grid_report" \in Range(completed)

\* C25: after a run of main without --dry-run and without --interactive,
\* every path of PROTECTED that existed when main was called still exists.
C25_ProtectedPathsSurvive ==
    (kpc = "done" /\ ~dry /\ ~interactive) =>
      \A p \in PROTECTED : p \in fs_before => p \in fs

\* The largest mean of a cell list with a classified cell.
MaxMean(cs) ==
    CHOOSE m \in MeanSet(cs) : \A x \in MeanSet(cs) : x <= m

\* C26: when Pass 2 has run, the 66th percentile is not above the largest
\* non-NoData mean, every cell whose mean is that largest mean has class good,
\* and so the final list has a good cell.
C26_MaxMeanIsGood ==
    Pass2Done =>
      /\ MeanSet(cells) # {}
      /\ Val(q66) <= MaxMean(cells)
      /\ \A i \in Classified(cells) :
           Val(cells[i].mean_ndvi) = MaxMean(cells) => cells[i].class = "good"
      /\ \E i \in 1..Len(cells) : cells[i].class = "good"

\* A finished run with Pass 2 whose cells have different means, one of them
\* not good.
C26_Witness ==
    /\ Pass2Done
    /\ pc = "done"
    /\ Cardinality(MeanSet(cells)) >= 2
    /\ \E i \in Classified(cells) : cells[i].class # "good"

\* Two cell records agree in every field but class.
SameButClass(c1, c2) == [ c1 EXCEPT !.class = "" ] = [ c2 EXCEPT !.class = "" ]

\* C27: the list the second make_grid call returns has the cells of the
\* first in the same order, equal in cell_id, labels, pixel bounds and mean;
\* the row and column edges it returns are those of the first call; and the
\* index array is modified by no step after it was loaded.
C27_Pass2ChangesClassOnly ==
    /\ [](Pass2Done =>
            /\ Len(cells) = Len(pass1_cells)
            /\ \A i \in 1..Len(cells) : SameButClass(cells[i], pass1_cells[i]))
    /\ [][(pc = "loop" /\ classifier = "dynamic" /\ pc' # "loop") =>
            /\ row_edges' = row_edges
            /\ col_edges' = col_edges
            /\ Len(cells') = Len(cells)
            /\ \A i \in 1..Len(cells) : SameButClass(cells'[i], cells[i])]_vars
    /\ [][pc # "start" => ndvi' = ndvi]_vars

\* A finished run in which Pass 2 changed the class of a cell, over an index
\* array with a missing sample.
C27_Witness ==
    /\ Pass2Done
    /\ pc = "done"
    /\ \E p \in DOMAIN ndvi.px : ndvi.px[p] = NaN
    /\ \E i \in 1..Len(cells) : cells[i].class # pass1_cells[i].class

\* The order poor < medium < good.
Rank(cls) == CASE cls = "poor" -> 1 [] cls = "medium" -> 2 [] cls = "good" -> 3

\* The thresholds of the make_grid call under way or last returned.
T1 == IF classifier = "absolute" THEN POOR_MAX ELSE Val(q33)
T2 == IF classifier = "absolute" THEN MEDIUM_MAX ELSE Val(q66)

\* C28: in the list of either pass a cell with the smaller mean never has the
\* better class, for every threshold pair; and when the first threshold is
\* not below the second no cell is classified medium.
C28_ClassMonotoneInMean ==
    /\ \A i, j \in Classified(mg_cells) :
         Val(mg_cells[i].mean_ndvi) <= Val(mg_cells[j].mean_ndvi)
           => Rank(mg_cells[i].class) <= Rank(mg_cells[j].class)
    /\ (pc = "loop" /\ T1 >= T2) =>
         \A i \in 1..Len(mg_cells) : mg_cells[i].class # "medium"
    /\ (Pass2Done /\ T1 >= T2) =>
         \A i \in 1..Len(cells) : cells[i].class # "medium"
    /\ POOR_MAX >= MEDIUM_MAX =>
         \A i \in 1..Len(pass1_cells) : pass1_cells[i].class # "medium"

\* A finished run with reversed thresholds, a mean between them classified
\* poor and a larger mean classified good.
C28_Witness ==
    /\ pc = "done"
    /\ POOR_MAX > MEDIUM_MAX
    /\ \E i, j \in Classified(cells) :
         /\ Val(cells[i].mean_ndvi) >= MEDIUM_MAX
         /\ Val(cells[i].mean_ndvi) < Val(cells[j].mean_ndvi)
         /\ cells[i].class = "poor"
         /\ cells[j].class = "good"

\* The cells of a list whose pixel range is empty.
EmptyRange(cs) == { i \in 1..Len(cs) : cs[i].r0 = cs[i].r1 \/ cs[i].c0 = cs[i].c1 }

\* The index array has fewer rows than the grid, or fewer columns.
FewerPixelsThanCells == ndvi.h < GRID_ROWS \/ ndvi.w < GRID_COLS

\* C29: run_grid_report fails only for a missing file, also when the array
\* has fewer rows or columns than the grid; a cell with an empty pixel range
\* has the NoData mean and class no_data; the class set of the degeneracy
\* check is that of the other cells, and the values of the percentiles are
\* the means of the other cells.
C29_EmptyCellsAreNoData ==
    /\ pc = "error" => ~tif_exists
    /\ \A cs \in CellLists : \A i \in EmptyRange(cs) :
         cs[i].mean_ndvi = None /\ cs[i].class = "no_data"
    /\ Checked =>
         classes = { pass1_cells[i].class :
                       i \in Classified(pass1_cells) \ EmptyRange(pass1_cells) }
    /\ classifier = "dynamic" =>
         /\ Len(values) =
              Cardinality(Classified(pass1_cells) \ EmptyRange(pass1_cells))
         /\ \A k \in 1..Len(values) : values[k] \in MeanSet(pass1_cells)

\* A finished run with Pass 2 over an array with fewer rows or columns than
\* the grid.
C29_Witness ==
    /\ FewerPixelsThanCells
    /\ Pass2Done
    /\ pc = "done"
    /\ EmptyRange(cells) # {}

\* A column of the categories table, blank fields left out.
RECURSIVE NonBlank(_)
NonBlank(col) ==
    IF col = << >> THEN << >>
    ELSE IF Head(col) = << >> THEN NonBlank(Tail(col))
    ELSE << Head(col) >> \o NonBlank(Tail(col))

Column(cls) ==
    LET rows == out_categories[1]
    IN  NonBlank([ i \in 1..Len(rows) |->
                     CASE cls = "poor" -> rows[i].poor
                       [] cls = "medium" -> rows[i].medium
                       [] cls = "good" -> rows[i].good
                       [] cls = "no_data" -> rows[i].no_data ])

ClassNames == { "poor", "medium", "good", "no_data" }

\* C30: in the categories table every cell_id of the final list stands
\* exactly once, in the column of its class; the table has R*C entries that
\* are not blank; and in each column the ids stand in the order of the list.
C30_CategoriesPartitionCells ==
    out_categories # << >> =>
      /\ \A i \in 1..Len(cells) : \A cls \in ClassNames :
           Occurrences(Column(cls), cells[i].cell_id)
             = (IF cls = cells[i].class THEN 1 ELSE 0)
      /\ Len(Column("poor")) + Len(Column("medium")) + Len(Column("good"))
           + Len(Column("no_data")) = GRID_ROWS * GRID_COLS
      /\ \A cls \in ClassNames : \A a, b \in 1..Len(Column(cls)) :
           a < b =>
             \E i, j \in 1..Len(cells) :
               /\ i < j
               /\ cells[i].cell_id = Column(cls)[a]
               /\ cells[j].cell_id = Column(cls)[b]

\* A table with two ids in one column and another column in use.
C30_Witness ==
    /\ out_categories # << >>
    /\ \E cls \in ClassNames : Len(Column(cls)) >= 2
    /\ Cardinality({ cls \in ClassNames : Column(cls) # << >> }) >= 2

====
